---- MODULE Spec2Model ----
(***************************************************************************)
(* State-machine model of the FOEDUS transaction-id / MCS lock substrate   *)
(* (foedus-core/include/foedus/xct/xct_id.hpp).                            *)
(*                                                                         *)
(* The header declares the lock words, the queue nodes and their helper    *)
(* methods; those are translated here line by line.  The bodies of         *)
(* McsLock::acquire_lock / release_lock / ownerless_* and of               *)
(* McsRwLock::reader_* / writer_* live in thread_pimpl.cpp, which is not   *)
(* among the source files: the actions that model them follow spec.md      *)
(* sections 4.1 / 4.2 and, for the reader-writer lock, the canonical       *)
(* pseudocode the header comment (xct_id.hpp:362-365) and spec.md          *)
(* section 9 name as the algorithm, composed from the header's helpers.    *)
(* One action is one machine-word atomic access (spec.md section 5).       *)
(***************************************************************************)
EXTENDS Integers, Sequences, FiniteSets, TLC

(* ---------------------------------------------------------------------- *)
(* Bounds of the model                                                     *)
(* ---------------------------------------------------------------------- *)
\* worker threads contending for the exclusive lock (thread ids 0..MaxMcsThreads-1)
MaxMcsThreads == 3
\* queue nodes a thread may take from its pool before it returns them
MaxBlocks == 2
\* guest (ownerless) contexts
MaxGuests == 2
\* worker threads contending for the reader-writer lock (thread ids 0..MaxRwThreads-1)
MaxRwThreads == 4
\* queue nodes a thread may take for the reader-writer lock before it returns them
MaxRwBlocks == 1
\* worker threads of the reader-writer lock in the runs where threads return
\* their queue nodes to the pool and acquire again
MaxRwPoolThreads == 3
\* threads that take the locks through scope objects, and scope objects of
\* the first of them, which moves its scopes (the other threads have one)
MaxScopeThreads == 2
MaxScopes == 2

McsThreads == 0 .. (MaxMcsThreads - 1)
Blocks == 1 .. MaxBlocks
Guests == 1 .. MaxGuests
RwThreads == 0 .. (MaxRwThreads - 1)
RwBlocks == 1 .. MaxRwBlocks
ScopeThreads == 0 .. (MaxScopeThreads - 1)
Slots == 1 .. MaxScopes
SlotsOf(t) == IF t = 0 THEN Slots ELSE {1}
RwPoolThreads == 0 .. (MaxRwPoolThreads - 1)

(* ---------------------------------------------------------------------- *)
(* Program constants                                                       *)
(* ---------------------------------------------------------------------- *)
\* A uint32_t is kept as its two 16-bit halves (TLC's integers are 32-bit signed):
\* hi = bits 16..31, lo = bits 0..15.
U32(hi, lo) == [hi |-> hi, lo |-> lo]

\* a guest id whose block half (low 16 bits) is zero
kMcsGuestId_BlockHalfZero == U32(65535, 0)
\* const uint32_t kMcsGuestId = -1;
kMcsGuestId == U32(65535, 65535)

\* McsRwBlock::kStateClassMask
kStateClassMask == 3
\* McsRwBlock::kStateClassReaderFlag
kStateClassReaderFlag == 1
\* McsRwBlock::kStateClassWriterFlag
kStateClassWriterFlag == 2
\* McsRwBlock::kStateBlockedFlag (1U << 7U)
kStateBlockedFlag == 128
\* McsRwBlock::kStateBlockedMask (1U << 7U)
kStateBlockedMask == 128
\* McsRwBlock::kSuccessorClassReader
kSuccessorClassReader == 1
\* McsRwBlock::kSuccessorClassWriter
kSuccessorClassWriter == 2
\* McsRwBlock::kSuccessorClassNone
kSuccessorClassNone == 3
\* McsRwLock::kNextWriterNone
kNextWriterNone == 65535

VARIABLES
  \* ---- exclusive lock (McsLock) and its threads
  lock_data,          \* McsLock::data_ (uint32)
  mcs_blocks,         \* per-thread pool of McsBlock: [thread][block] -> successor_
  mcs_waiting,        \* per-thread flag the predecessor clears on release
  mcs_block_current,  \* per-thread count of blocks taken from the pool
  x_pc,               \* per-thread position inside acquire_lock / release_lock
  x_block,            \* per-thread block index of the acquisition in progress
  x_pred,             \* per-thread previous tail read by the tail swap
  guest_pc,           \* per-guest position: "idle" | "held"
  x_order,            \* history: threads in tail-swap order, not yet released
  \* ---- reader-writer lock (McsRwLock) and its threads
  tail_,              \* McsRwLock::tail_ (uint32)
  next_writer_,       \* McsRwLock::next_writer_ (uint16)
  readers_count_,     \* McsRwLock::readers_count_ (uint16)
  rw_blocks,          \* per-thread pool of McsRwBlock: [thread][block]
  rw_block_current,   \* per-thread count of blocks taken from the pool
  rw_pc,              \* per-thread position inside reader_* / writer_*
  rw_block,           \* per-thread block index of the acquisition in progress
  rw_pred,            \* per-thread previous tail read by the tail swap
  rw_w,               \* per-thread next_writer value loaded by reader_release
  rw_order,           \* history: threads in tail-swap order, not yet released
  \* ---- scoped acquisition
  scopes,             \* per-thread McsLockScope / McsRwLockScope objects
  pv_scope,           \* per-thread PageVersionLockScope that took over a block
  ol_scopes,          \* per-guest McsOwnerlessLockScope object
  sc_call,            \* per-thread scope call that is inside the lock's acquire / release
  ol_call,            \* per-guest scope call that is inside the lock's acquire / release
  sc_noop,            \* history: parity of the acquire() / release() calls that did nothing
  sc_err,             \* a release was requested for a lock the caller does not hold
  \* ---- version stamps (XctId)
  xid,                \* XctId::data_ of the stamps a, b, c (uint64)
  xct_evaluated,      \* the comparisons below are those of the current stamps
  xct_cmp,            \* compare_epoch_and_orginal of every pair of stamps
  xct_bef,            \* before of every pair of stamps
  xct_call,           \* the last call on the stamps as they are: its result, or its abort
  \* ---- lock word encoding
  word_call,          \* the last call of McsLock::to_int: its arguments, or its abort
  \* ---- record publication
  pub_pc,             \* per-thread position in the publication of the record
  \* ---- YCSB client task
  ycsb                \* YcsbClientTask::run: its position, locals, counters and table

xvars == <<lock_data, mcs_blocks, mcs_waiting, mcs_block_current,
           x_pc, x_block, x_pred, guest_pc, x_order>>

rwvars == <<tail_, next_writer_, readers_count_, rw_blocks, rw_block_current,
            rw_pc, rw_block, rw_pred, rw_w, rw_order>>

scvars == <<scopes, pv_scope, ol_scopes, sc_call, ol_call, sc_noop, sc_err>>

idvars == <<xid, xct_evaluated, xct_cmp, xct_bef, xct_call>>

appvars == <<word_call, pub_pc, ycsb>>

\* the variables of the other features, for each feature
app_but_word == <<pub_pc, ycsb>>
app_but_pub == <<word_call, ycsb>>
app_but_ycsb == <<word_call, pub_pc>>

vars == <<xvars, rwvars, scvars, idvars, appvars>>

\* what the operations of the exclusive lock, and of the reader-writer lock,
\* leave alone
xframe == <<rwvars, scvars, idvars, appvars>>
rwframe == <<xvars, scvars, idvars, appvars>>

(* ---------------------------------------------------------------------- *)
(* McsNodeUnion / McsBlock                                                 *)
(* ---------------------------------------------------------------------- *)
\* McsNodeUnion::set / set_atomic / set_release: one 64-bit store of both halves
McsNodeUnion_set(thread_id, block) == [thread_id_ |-> thread_id, block_ |-> block]

\* McsNodeUnion::is_valid / is_valid_atomic
McsNodeUnion_is_valid(u) == u.block_ # 0

\* a has_successor that looks at the wrong half of the union
has_successor_ThreadHalf(blk) == blk.thread_id_ # 0
\* McsBlock::has_successor / has_successor_atomic
has_successor(blk) == McsNodeUnion_is_valid(blk)

\* McsBlock::get_successor_thread_id, returning the block half by mistake
get_successor_thread_id_BlockHalf(blk) == blk.block_
\* McsBlock::get_successor_thread_id
get_successor_thread_id(blk) == blk.thread_id_

\* McsBlock::get_successor_block
get_successor_block(blk) == blk.block_

\* McsBlock::clear_successor / clear_successor_atomic / clear_successor_release
clear_successor(blk) == McsNodeUnion_set(0, 0)

\* a set_successor that stores the block into the thread half and the thread
\* into the block half
set_successor_HalvesSwapped(blk, thread_id, block) == McsNodeUnion_set(block, thread_id)
\* McsBlock::set_successor / set_successor_atomic / set_successor_release
set_successor(blk, thread_id, block) == McsNodeUnion_set(thread_id, block)

(* ---------------------------------------------------------------------- *)
(* McsLock                                                                 *)
(* ---------------------------------------------------------------------- *)
\* a to_int that shifts the block index instead of the thread id
to_int_HalvesSwapped(tail_waiter, tail_waiter_block) ==
  U32(tail_waiter_block % 65536, tail_waiter % 65536)

\* McsLock::to_int
to_int(tail_waiter, tail_waiter_block) ==
  U32(tail_waiter % 65536, tail_waiter_block % 65536)

\* McsLock::get_tail_waiter
get_tail_waiter(data) == data.hi

\* a get_tail_waiter_block that shifts instead of masking: the thread half
get_tail_waiter_block_ThreadHalf(data) == data.hi
\* McsLock::get_tail_waiter_block
get_tail_waiter_block(data) == data.lo

\* is_locked that tests the thread half of the word
is_locked_ThreadHalf(data) == data.hi # 0

\* McsLock::is_locked
is_locked(data) == data.lo # 0

\* the node a tail value names, when it is a node of some thread's pool
IsMcsNode(thread_id, block) == thread_id \in McsThreads /\ block \in Blocks

(* ---------------------------------------------------------------------- *)
(* Initial state: control words are born zero, pools are unused            *)
(* ---------------------------------------------------------------------- *)
InitMcs ==
  /\ lock_data = U32(0, 0)
  /\ mcs_blocks = [t \in McsThreads |-> [b \in Blocks |-> McsNodeUnion_set(0, 0)]]
  /\ mcs_waiting = [t \in McsThreads |-> FALSE]
  /\ mcs_block_current = [t \in McsThreads |-> 0]
  /\ x_pc = [t \in McsThreads |-> "idle"]
  /\ x_block = [t \in McsThreads |-> 0]
  /\ x_pred = [t \in McsThreads |-> U32(0, 0)]
  /\ guest_pc = [g \in Guests |-> "idle"]
  /\ x_order = << >>

(* ---------------------------------------------------------------------- *)
(* McsLock::acquire_lock (spec.md 4.1, Protocol steps 1-5)                 *)
(* ---------------------------------------------------------------------- *)
\* step 1: take the next unused node of the pool and clear its successor
acquire_lock_alloc(t) ==
  /\ x_pc[t] = "idle"
  /\ mcs_block_current[t] < MaxBlocks
  /\ LET b == mcs_block_current[t] + 1 IN
       /\ mcs_block_current' = [mcs_block_current EXCEPT ![t] = b]
       /\ x_block' = [x_block EXCEPT ![t] = b]
       /\ mcs_blocks' = [mcs_blocks EXCEPT ![t][b] = clear_successor(mcs_blocks[t][b])]
  /\ mcs_waiting' = [mcs_waiting EXCEPT ![t] = TRUE]
  /\ x_pc' = [x_pc EXCEPT ![t] = "acq_guest"]
  /\ UNCHANGED <<lock_data, x_pred, guest_pc, x_order>>
  /\ UNCHANGED xframe

\* 4.1 Ownerless variant: an acquirer that observes GuestId spins until it is gone
acquire_lock_guest_spin(t) ==
  /\ x_pc[t] = "acq_guest"
  /\ lock_data # kMcsGuestId
  /\ x_pc' = [x_pc EXCEPT ![t] = "acq_swap"]
  /\ UNCHANGED <<lock_data, mcs_blocks, mcs_waiting, mcs_block_current,
                 x_block, x_pred, guest_pc, x_order>>
  /\ UNCHANGED xframe

\* steps 2-3: atomic swap of the tail; a previous tail (_, 0) means the lock is ours
acquire_lock_swap(t) ==
  /\ x_pc[t] = "acq_swap"
  /\ lock_data' = to_int(t, x_block[t])
  /\ x_order' = Append(x_order, t)
  /\ IF get_tail_waiter_block(lock_data) = 0
       THEN /\ mcs_waiting' = [mcs_waiting EXCEPT ![t] = FALSE]
            /\ x_pc' = [x_pc EXCEPT ![t] = "held"]
            /\ x_pred' = x_pred
       ELSE /\ mcs_waiting' = mcs_waiting
            /\ x_pc' = [x_pc EXCEPT ![t] = "acq_link"]
            /\ x_pred' = [x_pred EXCEPT ![t] = lock_data]
  /\ UNCHANGED <<mcs_blocks, mcs_block_current, x_block, guest_pc>>
  /\ UNCHANGED xframe

\* step 4: publish myself as the predecessor's successor (release store).
\* A previous tail that names no node of any pool (the guest value) has no
\* node to receive the store.
acquire_lock_link(t) ==
  /\ x_pc[t] = "acq_link"
  /\ LET pt == get_tail_waiter(x_pred[t])
         pb == get_tail_waiter_block(x_pred[t]) IN
       mcs_blocks' = IF IsMcsNode(pt, pb)
                       THEN [mcs_blocks EXCEPT
                               ![pt][pb] = set_successor(mcs_blocks[pt][pb], t, x_block[t])]
                       ELSE mcs_blocks
  /\ x_pc' = [x_pc EXCEPT ![t] = "acq_spin"]
  /\ x_pred' = [x_pred EXCEPT ![t] = U32(0, 0)]
  /\ UNCHANGED <<lock_data, mcs_waiting, mcs_block_current, x_block,
                 guest_pc, x_order>>
  /\ UNCHANGED xframe

\* step 5: spin on the per-thread flag until the predecessor clears it
acquire_lock_spin(t) ==
  /\ x_pc[t] = "acq_spin"
  /\ ~mcs_waiting[t]
  /\ x_pc' = [x_pc EXCEPT ![t] = "held"]
  /\ UNCHANGED <<lock_data, mcs_blocks, mcs_waiting, mcs_block_current,
                 x_block, x_pred, guest_pc, x_order>>
  /\ UNCHANGED xframe

(* ---------------------------------------------------------------------- *)
(* McsLock::release_lock (spec.md 4.1, Release steps 1-2)                  *)
(* ---------------------------------------------------------------------- *)
\* step 1: no successor yet: compare-and-swap the word from myself to 0
release_lock_cas(t) ==
  /\ x_pc[t] = "held"
  /\ IF has_successor(mcs_blocks[t][x_block[t]])
       THEN /\ x_pc' = [x_pc EXCEPT ![t] = "rel_signal"]
            /\ UNCHANGED <<lock_data, x_order, x_block>>
       ELSE IF lock_data = to_int(t, x_block[t])
         THEN /\ lock_data' = U32(0, 0)
              /\ x_pc' = [x_pc EXCEPT ![t] = "idle"]
              /\ x_block' = [x_block EXCEPT ![t] = 0]
              /\ x_order' = SelectSeq(x_order, LAMBDA u : u # t)
         ELSE /\ x_pc' = [x_pc EXCEPT ![t] = "rel_wait"]
              /\ UNCHANGED <<lock_data, x_order, x_block>>
  /\ UNCHANGED <<mcs_blocks, mcs_waiting, mcs_block_current, x_pred, guest_pc>>
  /\ UNCHANGED xframe

\* step 2: the CAS failed: spin until the successor has linked itself
release_lock_wait(t) ==
  /\ x_pc[t] = "rel_wait"
  /\ has_successor(mcs_blocks[t][x_block[t]])
  /\ x_pc' = [x_pc EXCEPT ![t] = "rel_signal"]
  /\ UNCHANGED <<lock_data, mcs_blocks, mcs_waiting, mcs_block_current,
                 x_block, x_pred, guest_pc, x_order>>
  /\ UNCHANGED xframe

\* step 2: unblock the successor (clear the flag it spins on)
release_lock_signal(t) ==
  /\ x_pc[t] = "rel_signal"
  /\ LET s == get_successor_thread_id(mcs_blocks[t][x_block[t]]) IN
       mcs_waiting' = [mcs_waiting EXCEPT ![s] = FALSE]
  /\ x_pc' = [x_pc EXCEPT ![t] = "idle"]
  /\ x_block' = [x_block EXCEPT ![t] = 0]
  /\ x_order' = SelectSeq(x_order, LAMBDA u : u # t)
  /\ mcs_blocks' = [mcs_blocks EXCEPT ![t][x_block[t]] = McsNodeUnion_set(0, 0)]
  /\ UNCHANGED <<lock_data, mcs_block_current, x_pred, guest_pc>>
  /\ UNCHANGED xframe

\* the thread returns its queue nodes to its pool (between transactions)
release_block(t) ==
  /\ x_pc[t] = "idle"
  /\ mcs_block_current[t] > 0
  /\ mcs_block_current' = [mcs_block_current EXCEPT ![t] = 0]
  /\ UNCHANGED <<lock_data, mcs_blocks, mcs_waiting, x_pc, x_block, x_pred,
                 guest_pc, x_order>>
  /\ UNCHANGED xframe

(* ---------------------------------------------------------------------- *)
(* Ownerless variant (spec.md 4.1)                                         *)
(* ---------------------------------------------------------------------- *)
\* CAS retry loop: only the CAS from the cleanly-unlocked word succeeds
ownerless_acquire_lock(g) ==
  /\ guest_pc[g] = "idle"
  /\ lock_data = to_int(0, 0)
  /\ lock_data' = kMcsGuestId
  /\ guest_pc' = [guest_pc EXCEPT ![g] = "held"]
  /\ UNCHANGED <<mcs_blocks, mcs_waiting, mcs_block_current, x_pc, x_block,
                 x_pred, x_order>>
  /\ UNCHANGED xframe

\* stores 0
ownerless_release_lock(g) ==
  /\ guest_pc[g] = "held"
  /\ lock_data' = U32(0, 0)
  /\ guest_pc' = [guest_pc EXCEPT ![g] = "idle"]
  /\ UNCHANGED <<mcs_blocks, mcs_waiting, mcs_block_current, x_pc, x_block,
                 x_pred, x_order>>
  /\ UNCHANGED xframe

(* ---------------------------------------------------------------------- *)
(* Bit operations on unsigned bytes / half-words                           *)
(* ---------------------------------------------------------------------- *)
RECURSIVE BitAnd(_, _)
BitAnd(a, b) ==
  IF a = 0 \/ b = 0 THEN 0
  ELSE (IF a % 2 = 1 /\ b % 2 = 1 THEN 1 ELSE 0) + 2 * BitAnd(a \div 2, b \div 2)

RECURSIVE BitOr(_, _)
BitOr(a, b) ==
  IF a = 0 THEN b
  ELSE IF b = 0 THEN a
  ELSE (IF a % 2 = 1 \/ b % 2 = 1 THEN 1 ELSE 0) + 2 * BitOr(a \div 2, b \div 2)

(* ---------------------------------------------------------------------- *)
(* McsRwBlock                                                              *)
(* ---------------------------------------------------------------------- *)
\* memory of a block that is not in use
McsRwBlock_zero ==
  [successor_class_ |-> 0, state_ |-> 0,
   successor_thread_id_ |-> 0, successor_block_index_ |-> 0]

\* init_common that leaves the successor fields of the previous use
init_common_KeepsSuccessor(blk) == blk

\* McsRwBlock::init_common
init_common(blk) ==
  [blk EXCEPT !.successor_class_ = kSuccessorClassNone,
              !.successor_thread_id_ = 0,
              !.successor_block_index_ = 0]

\* init_reader that sets the writer class flag
init_reader_WriterFlag(blk) ==
  init_common([blk EXCEPT !.state_ = BitOr(kStateClassWriterFlag, kStateBlockedFlag)])

\* McsRwBlock::init_reader
init_reader(blk) ==
  init_common([blk EXCEPT !.state_ = BitOr(kStateClassReaderFlag, kStateBlockedFlag)])

\* init_writer that leaves the blocked flag out
init_writer_NotBlocked(blk) ==
  init_common([blk EXCEPT !.state_ = kStateClassWriterFlag])

\* McsRwBlock::init_writer
init_writer(blk) ==
  init_common([blk EXCEPT !.state_ = BitOr(kStateClassWriterFlag, kStateBlockedFlag)])

\* McsRwBlock::is_reader
is_reader(blk) == BitAnd(blk.state_, kStateClassMask) = kStateClassReaderFlag

\* McsRwBlock::is_blocked
is_blocked(blk) == BitAnd(blk.state_, kStateBlockedMask) # 0

\* unblock with the mask not complemented: the blocked bit survives
unblock_MaskNotComplemented(blk) ==
  [blk EXCEPT !.state_ = BitAnd(blk.state_, kStateBlockedMask)]

\* McsRwBlock::unblock: fetch-and-and of state_ with ~kStateBlockedMask
unblock(blk) == [blk EXCEPT !.state_ = BitAnd(blk.state_, 255 - kStateBlockedMask)]

\* McsRwBlock::set_successor_class_writer
set_successor_class_writer(blk) == [blk EXCEPT !.successor_class_ = kSuccessorClassWriter]

\* McsRwBlock::set_successor_next_only: fetch-and-or of the 64-bit block with a
\* block whose self_.data_ is 0 and whose successor fields are the arguments
set_successor_next_only(blk, thread_id, block_index) ==
  [blk EXCEPT !.successor_thread_id_ = BitOr(blk.successor_thread_id_, thread_id),
              !.successor_block_index_ = BitOr(blk.successor_block_index_, block_index)]

\* McsRwBlock::has_successor
rw_has_successor(blk) == blk.successor_class_ # kSuccessorClassNone

\* McsRwBlock::successor_is_ready
successor_is_ready(blk) == blk.successor_block_index_ # 0

\* McsRwBlock::has_reader_successor
has_reader_successor(blk) == blk.successor_class_ = kSuccessorClassReader

\* has_writer_successor that takes any successor for a writer
has_writer_successor_AnyClass(blk) == blk.successor_class_ # kSuccessorClassNone

\* McsRwBlock::has_writer_successor
has_writer_successor(blk) == blk.successor_class_ = kSuccessorClassWriter

\* McsRwBlock::Self::data_: successor_class_ is the low byte, state_ the high byte
self_data(blk) == blk.state_ * 256 + blk.successor_class_

\* McsRwBlock::make_blocked_with_reader_successor_state
make_blocked_with_reader_successor_state(blk) ==
  BitOr(BitOr(blk.state_, kStateBlockedFlag) * 256, kSuccessorClassReader)

\* an expected value that takes the state as it is, blocked or not
make_blocked_with_no_successor_state_AnyState(blk) ==
  BitOr(blk.state_ * 256, kSuccessorClassNone)

\* McsRwBlock::make_blocked_with_no_successor_state
make_blocked_with_no_successor_state(blk) ==
  BitOr(BitOr(blk.state_, kStateBlockedFlag) * 256, kSuccessorClassNone)

\* a 16-bit store into McsRwBlock::Self::data_
set_self_data(blk, data) ==
  [blk EXCEPT !.state_ = data \div 256, !.successor_class_ = data % 256]

(* ---------------------------------------------------------------------- *)
(* McsRwLock                                                               *)
(* ---------------------------------------------------------------------- *)
\* McsRwLock::to_tail_int
to_tail_int(tail_waiter, tail_waiter_block) ==
  U32(tail_waiter % 65536, tail_waiter_block % 65536)

\* McsRwLock::get_tail_waiter
rw_get_tail_waiter(tail) == tail.hi

\* McsRwLock::get_tail_waiter_block
rw_get_tail_waiter_block(tail) == tail.lo

\* McsRwLock::is_locked
rw_is_locked(tail) == tail.lo # 0

\* McsRwLock::has_next_writer
has_next_writer(next_writer) == next_writer # kNextWriterNone

\* increment_readers_count that adds 2
increment_readers_count_AddsTwo(count) == (count + 2) % 65536

\* McsRwLock::increment_readers_count: the new value of readers_count_
increment_readers_count(count) == (count + 1) % 65536

\* decrement_readers_count that adds 1 instead of -1
decrement_readers_count_AddsOne(count) == (count + 1) % 65536

\* McsRwLock::decrement_readers_count: fetch-and-add of -1; the new value of
\* readers_count_ (the call returns the old one)
decrement_readers_count(count) == (count + 65535) % 65536

IsRwNode(thread_id, block) == thread_id \in RwThreads /\ block \in RwBlocks

\* McsRwLock::reset and the unused pools
InitRw ==
  /\ tail_ = U32(0, 0)
  /\ readers_count_ = 0
  /\ next_writer_ = kNextWriterNone
  /\ rw_blocks = [t \in RwThreads |-> [b \in RwBlocks |-> McsRwBlock_zero]]
  /\ rw_block_current = [t \in RwThreads |-> 0]
  /\ rw_pc = [t \in RwThreads |-> "idle"]
  /\ rw_block = [t \in RwThreads |-> 0]
  /\ rw_pred = [t \in RwThreads |-> U32(0, 0)]
  /\ rw_w = [t \in RwThreads |-> kNextWriterNone]
  /\ rw_order = << >>

(* ---------------------------------------------------------------------- *)
(* McsLockScope, McsRwLockScope, McsOwnerlessLockScope                     *)
(* ---------------------------------------------------------------------- *)
\* storage in which no scope object lives; a live object has the fields
\* lock_ (here: whether a lock is attached), block_ and, for McsRwLockScope,
\* as_reader_
NoScope ==
  [live |-> FALSE, type |-> "none", lock_ |-> FALSE, block_ |-> 0, as_reader_ |-> FALSE]

\* storage in which no McsOwnerlessLockScope lives
NoOwnerlessScope == [live |-> FALSE, lock_ |-> FALSE, locked_by_me_ |-> FALSE]

\* the caller is in no scope call
NoCall == [op |-> "none", slot |-> 0, from |-> 0, active |-> FALSE]

\* an is_valid that does not look at lock_
McsLockScope_is_valid_Always(sc) == TRUE
\* McsLockScope::is_valid
McsLockScope_is_valid(sc) == sc.lock_
\* an is_locked that does not look at block_
McsLockScope_is_locked_Never(sc) == FALSE
\* McsLockScope::is_locked
McsLockScope_is_locked(sc) == sc.block_ # 0
\* McsRwLockScope::is_valid
McsRwLockScope_is_valid(sc) == sc.lock_
\* an is_locked that tests block_ against the wrong value
McsRwLockScope_is_locked_Inverted(sc) == sc.block_ = 0
\* McsRwLockScope::is_locked
McsRwLockScope_is_locked(sc) == sc.block_ # 0
\* McsOwnerlessLockScope::is_valid
McsOwnerlessLockScope_is_valid(sc) == sc.lock_
\* McsOwnerlessLockScope::is_locked_by_me
is_locked_by_me(sc) == sc.locked_by_me_

\* is_valid / is_locked of a scope object of either struct
scope_is_valid(sc) ==
  IF sc.type = "McsRwLockScope" THEN McsRwLockScope_is_valid(sc)
  ELSE McsLockScope_is_valid(sc)
scope_is_locked(sc) ==
  IF sc.type = "McsRwLockScope" THEN McsRwLockScope_is_locked(sc)
  ELSE McsLockScope_is_locked(sc)

(* ---------------------------------------------------------------------- *)
(* XctId, the version stamp                                                *)
(* ---------------------------------------------------------------------- *)
\* a uint64 as four 16-bit words, w3 the most significant
U64(w3, w2, w1, w0) == [w3 |-> w3, w2 |-> w2, w1 |-> w1, w0 |-> w0]
U64And(x, y) ==
  U64(BitAnd(x.w3, y.w3), BitAnd(x.w2, y.w2), BitAnd(x.w1, y.w1), BitAnd(x.w0, y.w0))
U64Or(x, y) ==
  U64(BitOr(x.w3, y.w3), BitOr(x.w2, y.w2), BitOr(x.w1, y.w1), BitOr(x.w0, y.w0))
U64Not(x) == U64(65535 - x.w3, 65535 - x.w2, 65535 - x.w1, 65535 - x.w0)

\* 1ULL << 63, 1ULL << 62, 1ULL << 61, 1ULL << 60
kXctIdDeletedBit == U64(32768, 0, 0, 0)
kXctIdMovedBit == U64(16384, 0, 0, 0)
kXctIdBeingWrittenBit == U64(8192, 0, 0, 0)
kXctIdNextLayerBit == U64(4096, 0, 0, 0)
\* 0x0FFFFFFFFFFFFFFF, 0x0FFFFFFF00000000, 0x00000000FFFFFFFF
kXctIdMaskSerializer == U64(4095, 65535, 65535, 65535)
kXctIdMaskEpoch == U64(4095, 65535, 0, 0)
kXctIdMaskOrdinal == U64(0, 0, 65535, 65535)
\* (1ULL << 24) - 1U
kMaxXctOrdinal == 16777215

\* Epoch::kEpochInvalid, Epoch::kEpochIntOverflow (the epoch is 28 bits wide)
\* and half of the epoch space
kEpochInvalid == 0
kEpochIntOverflow == 268435456
kEpochIntHalf == 134217728

\* the half-space rule: a < b iff (b - a) mod 2^28 < 2^27
Epoch_less(a, b) == ((b - a + kEpochIntOverflow) % kEpochIntOverflow) < kEpochIntHalf
\* Epoch::before, Epoch::operator<, Epoch::operator>. Zero, the invalid
\* epoch, is outside the cyclic order: it is before every valid epoch and no
\* epoch is before it
Epoch_before(a, b) ==
  IF a = kEpochInvalid THEN b # kEpochInvalid
  ELSE IF b = kEpochInvalid THEN FALSE
  ELSE Epoch_less(a, b)
Epoch_lt(a, b) == Epoch_less(a, b)
Epoch_gt(a, b) == Epoch_less(b, a)

\* XctId::XctId
XctId_zero == U64(0, 0, 0, 0)
\* a set that stores the word with the being-written bit on
XctId_set_StillBeingWritten(epoch_int, ordinal) ==
  U64(8192 + epoch_int \div 65536, epoch_int % 65536, ordinal \div 65536, ordinal % 65536)
\* XctId::set: data_ = epoch_int << 32 | ordinal
XctId_set(epoch_int, ordinal) ==
  U64(epoch_int \div 65536, epoch_int % 65536, ordinal \div 65536, ordinal % 65536)
\* a get_epoch_int whose mask keeps the next-layer bit (0x1FFFFFFF00000000)
get_epoch_int_WideMask(x) == BitAnd(x.w3, 8191) * 65536 + x.w2
\* XctId::get_epoch_int: (data_ & kXctIdMaskEpoch) >> 32
get_epoch_int(x) ==
  LET masked == U64And(x, kXctIdMaskEpoch) IN masked.w3 * 65536 + masked.w2
\* XctId::get_epoch
get_epoch(x) == get_epoch_int(x)
\* XctId::is_valid
XctId_is_valid(x) == get_epoch_int(x) # kEpochInvalid
\* XctId::get_ordinal: static_cast<uint32_t>(data_)
get_ordinal(x) == x.w1 * 65536 + x.w0

\* XctId::compare_epoch_and_orginal, as compiled without the debug assertions
compare_epoch_and_orginal(this, other) ==
  IF get_epoch_int(this) # get_epoch_int(other)
  THEN IF Epoch_lt(get_epoch(this), get_epoch(other)) THEN -1 ELSE 1
  ELSE IF get_ordinal(this) < get_ordinal(other) THEN -1
       ELSE IF get_ordinal(this) > get_ordinal(other) THEN 1
       ELSE 0

\* the debug assertions of compare_epoch_and_orginal hold
compare_epoch_and_orginal_asserts(this, other) ==
  get_epoch_int(this) # get_epoch_int(other)
    => /\ get_epoch(this) # kEpochInvalid
       /\ get_epoch(other) # kEpochInvalid
       /\ (~Epoch_lt(get_epoch(this), get_epoch(other))
             => Epoch_gt(get_epoch(this), get_epoch(other)))

\* the debug assertion of XctId::before holds
before_asserts(this, other) ==
  /\ XctId_is_valid(other)
  /\ get_epoch_int(this) = get_epoch_int(other)
       => get_ordinal(this) <= kMaxXctOrdinal /\ get_ordinal(other) <= kMaxXctOrdinal

\* a before that looks at the ordinals only
before_IgnoresEpoch(this, other) == get_ordinal(this) < get_ordinal(other)
\* XctId::before
before(this, other) ==
  IF get_epoch_int(this) # get_epoch_int(other)
  THEN Epoch_before(get_epoch(this), get_epoch(other))
  ELSE get_ordinal(this) < get_ordinal(other)

\* XctId::set_being_written, set_write_complete, set_deleted, set_notdeleted,
\* set_moved, set_next_layer
set_being_written(x) == U64Or(x, kXctIdBeingWrittenBit)
set_write_complete(x) == U64And(x, U64Not(kXctIdBeingWrittenBit))
\* a set_deleted that turns the next-layer bit off, as set_next_layer does
\* with the deleted bit
set_deleted_ClearsNextLayer(x) ==
  U64Or(U64And(x, U64Not(kXctIdNextLayerBit)), kXctIdDeletedBit)
set_deleted(x) == U64Or(x, kXctIdDeletedBit)
set_notdeleted(x) == U64And(x, U64Not(kXctIdDeletedBit))
set_moved(x) == U64Or(x, kXctIdMovedBit)
\* a set_next_layer that leaves the deleted bit as it is
set_next_layer_KeepsDeleted(x) == U64Or(x, kXctIdNextLayerBit)
set_next_layer(x) == U64Or(U64And(x, U64Not(kXctIdDeletedBit)), kXctIdNextLayerBit)

\* XctId::is_being_written, is_deleted, is_moved, is_next_layer,
\* needs_track_moved
is_being_written(x) == U64And(x, kXctIdBeingWrittenBit) # XctId_zero
is_deleted(x) == U64And(x, kXctIdDeletedBit) # XctId_zero
is_moved(x) == U64And(x, kXctIdMovedBit) # XctId_zero
is_next_layer(x) == U64And(x, kXctIdNextLayerBit) # XctId_zero
needs_track_moved(x) == U64And(x, U64Or(kXctIdMovedBit, kXctIdNextLayerBit)) # XctId_zero

\* a set_epoch_int that keeps the ordinal only
set_epoch_int_DropsFlags(x, epoch_int) ==
  U64(epoch_int \div 65536, epoch_int % 65536, x.w1, x.w0)
\* XctId::set_epoch_int: data_ = (data_ & ~kXctIdMaskEpoch) | (epoch_int << 32)
set_epoch_int(x, epoch_int) ==
  U64Or(U64And(x, U64Not(kXctIdMaskEpoch)),
        U64(epoch_int \div 65536, epoch_int % 65536, 0, 0))
\* XctId::set_epoch
set_epoch(x, epoch) == set_epoch_int(x, epoch)
\* XctId::set_ordinal: data_ = (data_ & ~kXctIdMaskOrdinal) | ordinal
set_ordinal(x, ordinal) ==
  U64Or(U64And(x, U64Not(kXctIdMaskOrdinal)),
        U64(0, 0, ordinal \div 65536, ordinal % 65536))
\* XctId::increment_ordinal: set_ordinal(get_ordinal() + 1U), as compiled
\* without the debug assertions (the ordinals of the runs stay far below 2^32)
increment_ordinal(x) == set_ordinal(x, get_ordinal(x) + 1)
\* the debug assertions of get_ordinal and of set_ordinal hold in
\* increment_ordinal
increment_ordinal_asserts(x) ==
  /\ get_ordinal(x) <= kMaxXctOrdinal
  /\ get_ordinal(x) + 1 <= kMaxXctOrdinal
\* a clear_status_bits whose mask ends below the epoch (0x0000FFFFFFFFFFFF)
clear_status_bits_ShortMask(x) == U64And(x, U64(0, 65535, 65535, 65535))
\* XctId::clear_status_bits: data_ &= kXctIdMaskSerializer
clear_status_bits(x) == U64And(x, kXctIdMaskSerializer)
\* an operator== that masks the status bits, as a comparison of
\* serialization positions would
XctId_equals_SerialOrder(this, other) ==
  clear_status_bits(this) = clear_status_bits(other)
\* XctId::operator==: data_ == other.data_
XctId_equals(this, other) ==
  /\ this.w3 = other.w3
  /\ this.w2 = other.w2
  /\ this.w1 = other.w1
  /\ this.w0 = other.w0
\* a store_max that takes every valid other
store_max_Overwrites(this, other) == IF XctId_is_valid(other) THEN other ELSE this
\* XctId::store_max: the value of this after the call
store_max(this, other) ==
  IF ~XctId_is_valid(other) THEN this
  ELSE IF before(this, other) THEN other
  ELSE this

\* the stamps of the runs; every status bit of a is exercised, and the
\* highest and the lowest of b
StampNames == {"a", "b", "c"}
FlaggedStamps == {"a", "b"}
StampPairs == StampNames \X StampNames
\* epochs next to each other, exactly half the epoch space apart (1 and
\* 2^27 + 1), and spread over the whole space (1, 2^27, 2^28 - 1)
EpochSamples == {1, kEpochIntHalf, kEpochIntHalf + 1, kEpochIntOverflow - 1}
OrdinalSamples == {1, kMaxXctOrdinal}

\* no call has returned since the stamps last changed
NoXctCall ==
  [op |-> "none", this |-> "a", other |-> "a", result |-> 0, truth |-> FALSE,
   aborted |-> FALSE]

InitXct ==
  /\ xid = [n \in StampNames |-> XctId_zero]
  /\ xct_evaluated = FALSE
  /\ xct_cmp = [p \in StampPairs |-> 0]
  /\ xct_bef = [p \in StampPairs |-> FALSE]
  /\ xct_call = NoXctCall

InitScopes ==
  /\ scopes = [t \in ScopeThreads |-> [s \in Slots |-> NoScope]]
  /\ pv_scope = [t \in ScopeThreads |-> NoScope]
  /\ ol_scopes = [g \in Guests |-> NoOwnerlessScope]
  /\ sc_call = [t \in ScopeThreads |-> NoCall]
  /\ ol_call = [g \in Guests |-> NoCall]
  /\ sc_noop = FALSE
  /\ sc_err = FALSE

\* no call of McsLock::to_int has been made
NoWordCall ==
  [called |-> FALSE, tail_waiter |-> 0, tail_waiter_block |-> 0, aborted |-> FALSE]

\* workers of the YCSB run; the task modelled is worker 0
MaxYcsbWorkers == 2
YcsbWorkers == 0 .. (MaxYcsbWorkers - 1)

\* the task before YcsbClientTask::run is called
YcsbTask_zero ==
  [pc |-> "idle", random_inserts_ |-> FALSE, worker_id_ |-> 0, is_insert |-> FALSE,
   reps |-> 0, ret |-> "kErrorCodeOk", running |-> FALSE, stop |-> FALSE,
   key_counter_ |-> [w \in YcsbWorkers |-> 0],
   counter_at_begin |-> [w \in YcsbWorkers |-> 0],
   table |-> {}, writes |-> {}, unexpected_aborts_ |-> 0, result |-> "none"]

InitApp ==
  /\ word_call = NoWordCall
  /\ pub_pc = [t \in McsThreads |-> "idle"]
  /\ ycsb = YcsbTask_zero

Init == InitMcs /\ InitRw /\ InitScopes /\ InitXct /\ InitApp

(* ---------------------------------------------------------------------- *)
(* Reader-writer lock protocol (spec.md 4.2; the fair reader-writer queue  *)
(* lock of Mellor-Crummey and Scott with Fraser's fix that xct_id.hpp      *)
(* names, over the helpers of McsRwBlock and McsRwLock)                    *)
(* ---------------------------------------------------------------------- *)
\* the calling thread's block and its predecessor's block
RwMy(t) == rw_blocks[t][rw_block[t]]
RwPredThread(t) == rw_get_tail_waiter(rw_pred[t])
RwPredBlock(t) == rw_get_tail_waiter_block(rw_pred[t])
RwPred(t) == rw_blocks[RwPredThread(t)][RwPredBlock(t)]

\* the release is complete: the block is no longer referenced by anyone and is
\* dead until its next init_reader / init_writer, which overwrites every field
RwFinished(t, blocks) ==
  /\ rw_pc' = [rw_pc EXCEPT ![t] = "idle"]
  /\ rw_blocks' = [blocks EXCEPT ![t][rw_block[t]] = McsRwBlock_zero]
  /\ rw_block' = [rw_block EXCEPT ![t] = 0]
  /\ rw_w' = [rw_w EXCEPT ![t] = kNextWriterNone]
  /\ rw_order' = SelectSeq(rw_order, LAMBDA u : u # t)

RwGoto(t, label) == rw_pc' = [rw_pc EXCEPT ![t] = label]

(* ---------------- McsRwLock::reader_acquire ---------------- *)
\* step 1: allocate a node, mark self as reader and blocked
reader_acquire_init(t) ==
  /\ rw_pc[t] = "idle"
  /\ rw_block_current[t] < MaxRwBlocks
  /\ LET b == rw_block_current[t] + 1 IN
       /\ rw_block_current' = [rw_block_current EXCEPT ![t] = b]
       /\ rw_block' = [rw_block EXCEPT ![t] = b]
       /\ rw_blocks' = [rw_blocks EXCEPT ![t][b] = init_reader(rw_blocks[t][b])]
  /\ RwGoto(t, "ra_xchg")
  /\ UNCHANGED <<tail_, next_writer_, readers_count_, rw_pred, rw_w, rw_order>>
  /\ UNCHANGED rwframe

\* step 2: atomic swap of self into tail; read the predecessor
reader_acquire_xchg(t) ==
  /\ rw_pc[t] = "ra_xchg"
  /\ tail_' = to_tail_int(t, rw_block[t])
  /\ rw_order' = Append(rw_order, t)
  /\ IF tail_ = U32(0, 0)
       THEN RwGoto(t, "ra_inc_self") /\ rw_pred' = rw_pred
       ELSE RwGoto(t, "ra_cas") /\ rw_pred' = [rw_pred EXCEPT ![t] = tail_]
  /\ UNCHANGED <<next_writer_, readers_count_, rw_blocks, rw_block_current, rw_block, rw_w>>
  /\ UNCHANGED rwframe

\* step 3: no predecessor: increment readers_count ...
reader_acquire_inc_self(t) ==
  /\ rw_pc[t] = "ra_inc_self"
  /\ readers_count_' = increment_readers_count(readers_count_)
  /\ RwGoto(t, "ra_unblock_self")
  /\ UNCHANGED <<tail_, next_writer_, rw_blocks, rw_block_current, rw_block,
                 rw_pred, rw_w, rw_order>>
  /\ UNCHANGED rwframe

\* ... and clear blocked on self
reader_acquire_unblock_self(t) ==
  /\ rw_pc[t] = "ra_unblock_self"
  /\ rw_blocks' = [rw_blocks EXCEPT ![t][rw_block[t]] = unblock(RwMy(t))]
  /\ RwGoto(t, "ra_check_succ")
  /\ UNCHANGED <<tail_, next_writer_, readers_count_, rw_block_current, rw_block,
                 rw_pred, rw_w, rw_order>>
  /\ UNCHANGED rwframe

\* steps 4-5: the predecessor is a writer, or the CAS of the predecessor's
\* (state, successor_class) from (blocked, None) to (blocked, Reader) succeeds:
\* chain behind it; the CAS fails: the predecessor is an active reader, join it
reader_acquire_cas(t) ==
  /\ rw_pc[t] = "ra_cas"
  /\ IF ~is_reader(RwPred(t))
       THEN RwGoto(t, "ra_link") /\ rw_blocks' = rw_blocks
       ELSE IF self_data(RwPred(t)) = make_blocked_with_no_successor_state(RwPred(t))
         THEN /\ rw_blocks' = [rw_blocks EXCEPT ![RwPredThread(t)][RwPredBlock(t)] =
                    set_self_data(RwPred(t),
                                  make_blocked_with_reader_successor_state(RwPred(t)))]
              /\ RwGoto(t, "ra_link")
         ELSE RwGoto(t, "ra_join_inc") /\ rw_blocks' = rw_blocks
  /\ UNCHANGED <<tail_, next_writer_, readers_count_, rw_block_current, rw_block,
                 rw_pred, rw_w, rw_order>>
  /\ UNCHANGED rwframe

\* link self as the predecessor's successor
reader_acquire_link(t) ==
  /\ rw_pc[t] = "ra_link"
  /\ rw_blocks' = [rw_blocks EXCEPT ![RwPredThread(t)][RwPredBlock(t)] =
         set_successor_next_only(RwPred(t), t, rw_block[t])]
  /\ rw_pred' = [rw_pred EXCEPT ![t] = U32(0, 0)]
  /\ RwGoto(t, "ra_spin")
  /\ UNCHANGED <<tail_, next_writer_, readers_count_, rw_block_current, rw_block,
                 rw_w, rw_order>>
  /\ UNCHANGED rwframe

\* spin until blocked is cleared
reader_acquire_spin(t) ==
  /\ rw_pc[t] = "ra_spin"
  /\ ~is_blocked(RwMy(t))
  /\ RwGoto(t, "ra_check_succ")
  /\ UNCHANGED <<tail_, next_writer_, readers_count_, rw_blocks, rw_block_current,
                 rw_block, rw_pred, rw_w, rw_order>>
  /\ UNCHANGED rwframe

\* the predecessor is already unblocked: increment readers_count ...
reader_acquire_join_inc(t) ==
  /\ rw_pc[t] = "ra_join_inc"
  /\ readers_count_' = increment_readers_count(readers_count_)
  /\ RwGoto(t, "ra_join_link")
  /\ UNCHANGED <<tail_, next_writer_, rw_blocks, rw_block_current, rw_block,
                 rw_pred, rw_w, rw_order>>
  /\ UNCHANGED rwframe

\* ... link behind the predecessor ...
reader_acquire_join_link(t) ==
  /\ rw_pc[t] = "ra_join_link"
  /\ rw_blocks' = [rw_blocks EXCEPT ![RwPredThread(t)][RwPredBlock(t)] =
         set_successor_next_only(RwPred(t), t, rw_block[t])]
  /\ rw_pred' = [rw_pred EXCEPT ![t] = U32(0, 0)]
  /\ RwGoto(t, "ra_join_unblock")
  /\ UNCHANGED <<tail_, next_writer_, readers_count_, rw_block_current, rw_block,
                 rw_w, rw_order>>
  /\ UNCHANGED rwframe

\* ... and self-unblock
reader_acquire_join_unblock(t) ==
  /\ rw_pc[t] = "ra_join_unblock"
  /\ rw_blocks' = [rw_blocks EXCEPT ![t][rw_block[t]] = unblock(RwMy(t))]
  /\ RwGoto(t, "ra_check_succ")
  /\ UNCHANGED <<tail_, next_writer_, readers_count_, rw_block_current, rw_block,
                 rw_pred, rw_w, rw_order>>
  /\ UNCHANGED rwframe

\* granted: a reader successor that chained behind me is granted with me
reader_acquire_check_succ(t) ==
  /\ rw_pc[t] = "ra_check_succ"
  /\ IF has_reader_successor(RwMy(t))
       THEN RwGoto(t, "ra_wait_succ")
       ELSE RwGoto(t, "r_held")
  /\ UNCHANGED <<tail_, next_writer_, readers_count_, rw_blocks, rw_block_current,
                 rw_block, rw_pred, rw_w, rw_order>>
  /\ UNCHANGED rwframe

reader_acquire_wait_succ(t) ==
  /\ rw_pc[t] = "ra_wait_succ"
  /\ successor_is_ready(RwMy(t))
  /\ RwGoto(t, "ra_succ_inc")
  /\ UNCHANGED <<tail_, next_writer_, readers_count_, rw_blocks, rw_block_current,
                 rw_block, rw_pred, rw_w, rw_order>>
  /\ UNCHANGED rwframe

reader_acquire_succ_inc(t) ==
  /\ rw_pc[t] = "ra_succ_inc"
  /\ readers_count_' = increment_readers_count(readers_count_)
  /\ RwGoto(t, "ra_succ_unblock")
  /\ UNCHANGED <<tail_, next_writer_, rw_blocks, rw_block_current, rw_block,
                 rw_pred, rw_w, rw_order>>
  /\ UNCHANGED rwframe

reader_acquire_succ_unblock(t) ==
  /\ rw_pc[t] = "ra_succ_unblock"
  /\ LET st == RwMy(t).successor_thread_id_
         sb == RwMy(t).successor_block_index_ IN
       rw_blocks' = [rw_blocks EXCEPT ![st][sb] = unblock(rw_blocks[st][sb])]
  /\ RwGoto(t, "r_held")
  /\ UNCHANGED <<tail_, next_writer_, readers_count_, rw_block_current, rw_block,
                 rw_pred, rw_w, rw_order>>
  /\ UNCHANGED rwframe

(* ---------------- McsRwLock::reader_release ---------------- *)
\* a successor has linked, or the CAS of tail from self to 0 fails: wait for it
reader_release_cas(t) ==
  /\ rw_pc[t] = "r_held"
  /\ IF successor_is_ready(RwMy(t))
       THEN RwGoto(t, "rr_wait_succ") /\ tail_' = tail_
       ELSE IF tail_ = to_tail_int(t, rw_block[t])
         THEN RwGoto(t, "rr_dec") /\ tail_' = U32(0, 0)
         ELSE RwGoto(t, "rr_wait_succ") /\ tail_' = tail_
  /\ UNCHANGED <<next_writer_, readers_count_, rw_blocks, rw_block_current,
                 rw_block, rw_pred, rw_w, rw_order>>
  /\ UNCHANGED rwframe

reader_release_wait_succ(t) ==
  /\ rw_pc[t] = "rr_wait_succ"
  /\ successor_is_ready(RwMy(t))
  /\ IF has_writer_successor(RwMy(t))
       THEN RwGoto(t, "rr_set_nw")
       ELSE RwGoto(t, "rr_dec")
  /\ UNCHANGED <<tail_, next_writer_, readers_count_, rw_blocks, rw_block_current,
                 rw_block, rw_pred, rw_w, rw_order>>
  /\ UNCHANGED rwframe

\* the writer behind me yields to the active reader cohort
reader_release_set_next_writer(t) ==
  /\ rw_pc[t] = "rr_set_nw"
  /\ next_writer_' = RwMy(t).successor_thread_id_
  /\ RwGoto(t, "rr_dec")
  /\ UNCHANGED <<tail_, readers_count_, rw_blocks, rw_block_current, rw_block,
                 rw_pred, rw_w, rw_order>>
  /\ UNCHANGED rwframe

\* atomically decrement readers_count; the last active reader goes on
reader_release_dec(t) ==
  /\ rw_pc[t] = "rr_dec"
  /\ readers_count_' = decrement_readers_count(readers_count_)
  /\ IF readers_count_ = 1
       THEN /\ RwGoto(t, "rr_load_nw")
            /\ UNCHANGED <<rw_blocks, rw_block, rw_w, rw_order>>
       ELSE RwFinished(t, rw_blocks)
  /\ UNCHANGED <<tail_, next_writer_, rw_block_current, rw_pred>>
  /\ UNCHANGED rwframe

reader_release_load_next_writer(t) ==
  /\ rw_pc[t] = "rr_load_nw"
  /\ IF has_next_writer(next_writer_)
       THEN /\ RwGoto(t, "rr_check_cnt")
            /\ rw_w' = [rw_w EXCEPT ![t] = next_writer_]
            /\ UNCHANGED <<rw_blocks, rw_block, rw_order>>
       ELSE RwFinished(t, rw_blocks)
  /\ UNCHANGED <<tail_, next_writer_, readers_count_, rw_block_current, rw_pred>>
  /\ UNCHANGED rwframe

reader_release_check_count(t) ==
  /\ rw_pc[t] = "rr_check_cnt"
  /\ IF readers_count_ = 0
       THEN /\ RwGoto(t, "rr_cas_nw")
            /\ UNCHANGED <<rw_blocks, rw_block, rw_w, rw_order>>
       ELSE RwFinished(t, rw_blocks)
  /\ UNCHANGED <<tail_, next_writer_, readers_count_, rw_block_current, rw_pred>>
  /\ UNCHANGED rwframe

\* CAS next_writer from the writer loaded to none
reader_release_cas_next_writer(t) ==
  /\ rw_pc[t] = "rr_cas_nw"
  /\ IF next_writer_ = rw_w[t]
       THEN /\ next_writer_' = kNextWriterNone
            /\ RwGoto(t, "rr_wake")
            /\ UNCHANGED <<rw_blocks, rw_block, rw_w, rw_order>>
       ELSE /\ next_writer_' = next_writer_
            /\ RwFinished(t, rw_blocks)
  /\ UNCHANGED <<tail_, readers_count_, rw_block_current, rw_pred>>
  /\ UNCHANGED rwframe

\* wake that writer by clearing its blocked flag (a thread that has taken no
\* node has its current index at 0, the slot of its pool that is no node)
reader_release_wake(t) ==
  /\ rw_pc[t] = "rr_wake"
  /\ LET w == rw_w[t]
         wb == rw_block_current[w] IN
       IF wb \in RwBlocks
         THEN RwFinished(t, [rw_blocks EXCEPT ![w][wb] = unblock(rw_blocks[w][wb])])
         ELSE RwFinished(t, rw_blocks)
  /\ UNCHANGED <<tail_, next_writer_, readers_count_, rw_block_current, rw_pred>>
  /\ UNCHANGED rwframe

(* ---------------- McsRwLock::writer_acquire ---------------- *)
writer_acquire_init(t) ==
  /\ rw_pc[t] = "idle"
  /\ rw_block_current[t] < MaxRwBlocks
  /\ LET b == rw_block_current[t] + 1 IN
       /\ rw_block_current' = [rw_block_current EXCEPT ![t] = b]
       /\ rw_block' = [rw_block EXCEPT ![t] = b]
       /\ rw_blocks' = [rw_blocks EXCEPT ![t][b] = init_writer(rw_blocks[t][b])]
  /\ RwGoto(t, "wa_xchg")
  /\ UNCHANGED <<tail_, next_writer_, readers_count_, rw_pred, rw_w, rw_order>>
  /\ UNCHANGED rwframe

writer_acquire_xchg(t) ==
  /\ rw_pc[t] = "wa_xchg"
  /\ tail_' = to_tail_int(t, rw_block[t])
  /\ rw_order' = Append(rw_order, t)
  /\ IF tail_ = U32(0, 0)
       THEN RwGoto(t, "wa_set_nw") /\ rw_pred' = rw_pred
       ELSE RwGoto(t, "wa_set_class") /\ rw_pred' = [rw_pred EXCEPT ![t] = tail_]
  /\ UNCHANGED <<next_writer_, readers_count_, rw_blocks, rw_block_current, rw_block, rw_w>>
  /\ UNCHANGED rwframe

\* no predecessor: announce myself as the next writer ...
writer_acquire_set_next_writer(t) ==
  /\ rw_pc[t] = "wa_set_nw"
  /\ next_writer_' = t
  /\ RwGoto(t, "wa_check_cnt")
  /\ UNCHANGED <<tail_, readers_count_, rw_blocks, rw_block_current, rw_block,
                 rw_pred, rw_w, rw_order>>
  /\ UNCHANGED rwframe

\* ... and, if there is no active reader, ...
writer_acquire_check_count(t) ==
  /\ rw_pc[t] = "wa_check_cnt"
  /\ IF readers_count_ = 0
       THEN RwGoto(t, "wa_swap_nw")
       ELSE RwGoto(t, "wa_spin")
  /\ UNCHANGED <<tail_, next_writer_, readers_count_, rw_blocks, rw_block_current,
                 rw_block, rw_pred, rw_w, rw_order>>
  /\ UNCHANGED rwframe

\* ... take the announcement back: whoever takes it back grants the writer
writer_acquire_swap_next_writer(t) ==
  /\ rw_pc[t] = "wa_swap_nw"
  /\ next_writer_' = kNextWriterNone
  /\ IF next_writer_ = t
       THEN RwGoto(t, "wa_unblock_self")
       ELSE RwGoto(t, "wa_spin")
  /\ UNCHANGED <<tail_, readers_count_, rw_blocks, rw_block_current, rw_block,
                 rw_pred, rw_w, rw_order>>
  /\ UNCHANGED rwframe

writer_acquire_unblock_self(t) ==
  /\ rw_pc[t] = "wa_unblock_self"
  /\ rw_blocks' = [rw_blocks EXCEPT ![t][rw_block[t]] = unblock(RwMy(t))]
  /\ RwGoto(t, "w_held")
  /\ UNCHANGED <<tail_, next_writer_, readers_count_, rw_block_current, rw_block,
                 rw_pred, rw_w, rw_order>>
  /\ UNCHANGED rwframe

\* a predecessor: designate myself as its writer successor ...
writer_acquire_set_class(t) ==
  /\ rw_pc[t] = "wa_set_class"
  /\ rw_blocks' = [rw_blocks EXCEPT ![RwPredThread(t)][RwPredBlock(t)] =
         set_successor_class_writer(RwPred(t))]
  /\ RwGoto(t, "wa_link")
  /\ UNCHANGED <<tail_, next_writer_, readers_count_, rw_block_current, rw_block,
                 rw_pred, rw_w, rw_order>>
  /\ UNCHANGED rwframe

\* ... and link
writer_acquire_link(t) ==
  /\ rw_pc[t] = "wa_link"
  /\ rw_blocks' = [rw_blocks EXCEPT ![RwPredThread(t)][RwPredBlock(t)] =
         set_successor_next_only(RwPred(t), t, rw_block[t])]
  /\ rw_pred' = [rw_pred EXCEPT ![t] = U32(0, 0)]
  /\ RwGoto(t, "wa_spin")
  /\ UNCHANGED <<tail_, next_writer_, readers_count_, rw_block_current, rw_block,
                 rw_w, rw_order>>
  /\ UNCHANGED rwframe

\* spin until blocked is cleared
writer_acquire_spin(t) ==
  /\ rw_pc[t] = "wa_spin"
  /\ ~is_blocked(RwMy(t))
  /\ RwGoto(t, "w_held")
  /\ UNCHANGED <<tail_, next_writer_, readers_count_, rw_blocks, rw_block_current,
                 rw_block, rw_pred, rw_w, rw_order>>
  /\ UNCHANGED rwframe

(* ---------------- McsRwLock::writer_release ---------------- *)
\* no successor: CAS tail from self to 0
writer_release_cas(t) ==
  /\ rw_pc[t] = "w_held"
  /\ IF successor_is_ready(RwMy(t))
       THEN /\ RwGoto(t, "wr_wait_succ")
            /\ UNCHANGED <<tail_, rw_blocks, rw_block, rw_w, rw_order>>
       ELSE IF tail_ = to_tail_int(t, rw_block[t])
         THEN tail_' = U32(0, 0) /\ RwFinished(t, rw_blocks)
         ELSE /\ RwGoto(t, "wr_wait_succ")
              /\ UNCHANGED <<tail_, rw_blocks, rw_block, rw_w, rw_order>>
  /\ UNCHANGED <<next_writer_, readers_count_, rw_block_current, rw_pred>>
  /\ UNCHANGED rwframe

writer_release_wait_succ(t) ==
  /\ rw_pc[t] = "wr_wait_succ"
  /\ successor_is_ready(RwMy(t))
  /\ LET st == RwMy(t).successor_thread_id_
         sb == RwMy(t).successor_block_index_ IN
       IF is_reader(rw_blocks[st][sb])
         THEN RwGoto(t, "wr_inc")
         ELSE RwGoto(t, "wr_unblock")
  /\ UNCHANGED <<tail_, next_writer_, readers_count_, rw_blocks, rw_block_current,
                 rw_block, rw_pred, rw_w, rw_order>>
  /\ UNCHANGED rwframe

\* the successor is a reader: count it on its behalf
writer_release_inc(t) ==
  /\ rw_pc[t] = "wr_inc"
  /\ readers_count_' = increment_readers_count(readers_count_)
  /\ RwGoto(t, "wr_unblock")
  /\ UNCHANGED <<tail_, next_writer_, rw_blocks, rw_block_current, rw_block,
                 rw_pred, rw_w, rw_order>>
  /\ UNCHANGED rwframe

\* hand off to whatever successor sits behind, regardless of class
writer_release_unblock(t) ==
  /\ rw_pc[t] = "wr_unblock"
  /\ LET st == RwMy(t).successor_thread_id_
         sb == RwMy(t).successor_block_index_ IN
       RwFinished(t, [rw_blocks EXCEPT ![st][sb] = unblock(rw_blocks[st][sb])])
  /\ UNCHANGED <<tail_, next_writer_, readers_count_, rw_block_current, rw_pred>>
  /\ UNCHANGED rwframe

\* the thread returns its queue nodes to its pool (between transactions)
rw_release_block(t) ==
  /\ rw_pc[t] = "idle"
  /\ rw_block_current[t] > 0
  /\ rw_block_current' = [rw_block_current EXCEPT ![t] = 0]
  /\ UNCHANGED <<tail_, next_writer_, readers_count_, rw_blocks, rw_pc, rw_block,
                 rw_pred, rw_w, rw_order>>
  /\ UNCHANGED rwframe

(* ---------------------------------------------------------------------- *)
(* Specifications of the exclusive lock                                    *)
(* ---------------------------------------------------------------------- *)
\* a step of a thread that is inside acquire_lock or release_lock or holds the lock
McsStep(t) ==
  \/ acquire_lock_guest_spin(t)
  \/ acquire_lock_swap(t)
  \/ acquire_lock_link(t)
  \/ acquire_lock_spin(t)
  \/ release_lock_cas(t)
  \/ release_lock_wait(t)
  \/ release_lock_signal(t)

NextMcs ==
  \/ \E t \in McsThreads : acquire_lock_alloc(t)
  \/ \E t \in McsThreads : acquire_lock_guest_spin(t)
  \/ \E t \in McsThreads : acquire_lock_swap(t)
  \/ \E t \in McsThreads : acquire_lock_link(t)
  \/ \E t \in McsThreads : acquire_lock_spin(t)
  \/ \E t \in McsThreads : release_lock_cas(t)
  \/ \E t \in McsThreads : release_lock_wait(t)
  \/ \E t \in McsThreads : release_lock_signal(t)
  \/ \E t \in McsThreads : release_block(t)

NextGuest ==
  \/ NextMcs
  \/ \E g \in Guests : ownerless_acquire_lock(g)
  \/ \E g \in Guests : ownerless_release_lock(g)

\* queued acquire / release only
SpecMcs == Init /\ [][NextMcs]_vars

\* queued and ownerless use of the same lock
SpecGuest == Init /\ [][NextGuest]_vars

\* queued acquire / release under fair scheduling: a thread inside acquire or
\* release, or holding the lock, eventually takes its next step
FairSpecMcs == SpecMcs /\ \A t \in McsThreads : WF_vars(McsStep(t))

Spec == SpecMcs

(* ---------------------------------------------------------------------- *)
(* Specifications of the reader-writer lock                                *)
(* ---------------------------------------------------------------------- *)
\* the steps of a thread that is inside reader/writer acquire or release, or
\* holds the lock
RwStep(t) ==
  \/ reader_acquire_xchg(t) \/ reader_acquire_inc_self(t)
  \/ reader_acquire_unblock_self(t) \/ reader_acquire_cas(t)
  \/ reader_acquire_link(t) \/ reader_acquire_spin(t)
  \/ reader_acquire_join_inc(t) \/ reader_acquire_join_link(t)
  \/ reader_acquire_join_unblock(t) \/ reader_acquire_check_succ(t)
  \/ reader_acquire_wait_succ(t) \/ reader_acquire_succ_inc(t)
  \/ reader_acquire_succ_unblock(t)
  \/ reader_release_cas(t) \/ reader_release_wait_succ(t)
  \/ reader_release_set_next_writer(t) \/ reader_release_dec(t)
  \/ reader_release_load_next_writer(t) \/ reader_release_check_count(t)
  \/ reader_release_cas_next_writer(t) \/ reader_release_wake(t)
  \/ writer_acquire_xchg(t) \/ writer_acquire_set_next_writer(t)
  \/ writer_acquire_check_count(t) \/ writer_acquire_swap_next_writer(t)
  \/ writer_acquire_unblock_self(t) \/ writer_acquire_set_class(t)
  \/ writer_acquire_link(t) \/ writer_acquire_spin(t)
  \/ writer_release_cas(t) \/ writer_release_wait_succ(t)
  \/ writer_release_inc(t) \/ writer_release_unblock(t)

RwNext(T) ==
  \/ \E t \in T : reader_acquire_init(t)
  \/ \E t \in T : reader_acquire_xchg(t)
  \/ \E t \in T : reader_acquire_inc_self(t)
  \/ \E t \in T : reader_acquire_unblock_self(t)
  \/ \E t \in T : reader_acquire_cas(t)
  \/ \E t \in T : reader_acquire_link(t)
  \/ \E t \in T : reader_acquire_spin(t)
  \/ \E t \in T : reader_acquire_join_inc(t)
  \/ \E t \in T : reader_acquire_join_link(t)
  \/ \E t \in T : reader_acquire_join_unblock(t)
  \/ \E t \in T : reader_acquire_check_succ(t)
  \/ \E t \in T : reader_acquire_wait_succ(t)
  \/ \E t \in T : reader_acquire_succ_inc(t)
  \/ \E t \in T : reader_acquire_succ_unblock(t)
  \/ \E t \in T : reader_release_cas(t)
  \/ \E t \in T : reader_release_wait_succ(t)
  \/ \E t \in T : reader_release_set_next_writer(t)
  \/ \E t \in T : reader_release_dec(t)
  \/ \E t \in T : reader_release_load_next_writer(t)
  \/ \E t \in T : reader_release_check_count(t)
  \/ \E t \in T : reader_release_cas_next_writer(t)
  \/ \E t \in T : reader_release_wake(t)
  \/ \E t \in T : writer_acquire_init(t)
  \/ \E t \in T : writer_acquire_xchg(t)
  \/ \E t \in T : writer_acquire_set_next_writer(t)
  \/ \E t \in T : writer_acquire_check_count(t)
  \/ \E t \in T : writer_acquire_swap_next_writer(t)
  \/ \E t \in T : writer_acquire_unblock_self(t)
  \/ \E t \in T : writer_acquire_set_class(t)
  \/ \E t \in T : writer_acquire_link(t)
  \/ \E t \in T : writer_acquire_spin(t)
  \/ \E t \in T : writer_release_cas(t)
  \/ \E t \in T : writer_release_wait_succ(t)
  \/ \E t \in T : writer_release_inc(t)
  \/ \E t \in T : writer_release_unblock(t)

\* every thread takes at most MaxRwBlocks nodes and never returns them
NextRw == RwNext(RwThreads)

\* threads return their nodes to the pool and acquire again
NextRwPool ==
  \/ RwNext(RwPoolThreads)
  \/ \E t \in RwPoolThreads : rw_release_block(t)

\* reader-writer lock, any interleaving of readers and writers
SpecRw == Init /\ [][NextRw]_vars

SpecRwPool == Init /\ [][NextRwPool]_vars

\* every thread that is inside a call, or holds the lock, keeps taking steps
FairSpecRw == SpecRwPool /\ \A t \in RwPoolThreads : WF_vars(RwStep(t))

(* ---------------------------------------------------------------------- *)
(* Both queue locks                                                        *)
(* ---------------------------------------------------------------------- *)
\* no thread is inside a call on the lock, holds it, or keeps nodes of it
McsQuiet == \A t \in McsThreads : x_pc[t] = "idle" /\ mcs_block_current[t] = 0
RwQuiet == \A t \in RwThreads : rw_pc[t] = "idle" /\ rw_block_current[t] = 0

\* The two locks are separate objects with separate queue nodes and share no
\* state, so a run that interleaves them is the product of a run of each; the
\* runs of this specification use one of the two locks at a time.
NextQueues ==
  \/ RwQuiet /\ NextMcs
  \/ McsQuiet /\ NextRwPool

SpecQueues == Init /\ [][NextQueues]_vars

(* ---------------------------------------------------------------------- *)
(* Properties of the exclusive lock                                        *)
(* ---------------------------------------------------------------------- *)
\* the thread is between the return of its acquire_lock and its call of release_lock
XHolds(t) == x_pc[t] = "held"

\* the thread's tail swap is done and it has been granted the lock
XGranted(t) ==
  \/ x_pc[t] = "held"
  \/ x_pc[t] = "acq_spin" /\ ~mcs_waiting[t]

\* the thread was granted the lock and is inside release_lock
XReleasing(t) == x_pc[t] \in {"rel_wait", "rel_signal"}

\* the thread is inside acquire_lock
XAcquiring(t) == x_pc[t] \in {"acq_guest", "acq_swap", "acq_link", "acq_spin"}

GuestHolds == \E g \in Guests : guest_pc[g] = "held"

\* C1: under every interleaving of acquire_lock and release_lock, at most one
\* thread is between the return of its acquire and its call of release.
C1_MutualExclusion ==
  \A t, u \in McsThreads : (XHolds(t) /\ XHolds(u)) => t = u

\* C1 witness: one thread holds the lock while another, queued behind it,
\* spins on its flag.
C1_Witness_HeldWhileAnotherSpins ==
  \E t, u \in McsThreads :
    /\ t # u
    /\ XHolds(t)
    /\ x_pc[u] = "acq_spin" /\ mcs_waiting[u]
    /\ mcs_blocks[t][x_block[t]] = McsNodeUnion_set(u, x_block[u])

\* C3: with acquire/release and ownerless_acquire/ownerless_release on the same
\* lock, no queued thread holds the lock while a guest holds it or while the
\* word is the guest id, at most one guest holds it, and a guest takes the lock
\* only by changing the word from 0 to the guest id.
C3_GuestQueuedExclusive ==
  [][ /\ (GuestHolds' \/ lock_data' = kMcsGuestId) => \A t \in McsThreads : ~XGranted(t)'
      /\ \A g, h \in Guests : (guest_pc'[g] = "held" /\ guest_pc'[h] = "held") => g = h
      /\ \A g \in Guests :
           (guest_pc[g] # "held" /\ guest_pc'[g] = "held")
             => (lock_data = U32(0, 0) /\ lock_data' = kMcsGuestId) ]_vars

\* C3 witness: a guest holds the lock (word = guest id) while a queued acquirer
\* that observed the guest id spins before entering the queue.
C3_Witness_GuestHeldQueuedSpin ==
  \E g \in Guests, t \in McsThreads :
    /\ guest_pc[g] = "held"
    /\ lock_data = kMcsGuestId
    /\ x_pc[t] = "acq_guest"

\* C4: grants follow tail-swap order: whenever a thread has been granted the
\* lock, every thread whose tail swap came earlier and that has not finished
\* its release was granted before it.
C4_FifoGrantOrder ==
  \A i, j \in 1 .. Len(x_order) :
    (i < j /\ XGranted(x_order[j]))
      => (XGranted(x_order[i]) \/ XReleasing(x_order[i]))

\* C4 witness: three threads swapped in some order; the first has released,
\* the second has just been granted by the hand-off and the third still waits.
C4_Witness_HandoffInOrder ==
  /\ Len(x_order) = 2
  /\ x_pc[x_order[1]] = "acq_spin" /\ ~mcs_waiting[x_order[1]]
  /\ x_pc[x_order[2]] = "acq_spin" /\ mcs_waiting[x_order[2]]
  /\ \E t \in McsThreads : x_pc[t] = "idle" /\ mcs_block_current[t] > 0

\* C5: under fair scheduling every acquire_lock returns, and a release whose
\* compare-and-swap of the tail failed finds its successor and completes.
C5_AcquireEventuallyReturns ==
  \A t \in McsThreads :
    /\ XAcquiring(t) ~> XHolds(t)
    /\ (x_pc[t] = "rel_wait") ~> (x_pc[t] = "idle")

\* C5 witness: a release whose compare-and-swap failed waits for a successor
\* that has swapped the tail and not linked itself yet.
C5_Witness_ReleaseCasFailed ==
  \E t, u \in McsThreads :
    /\ x_pc[t] = "rel_wait"
    /\ ~has_successor(mcs_blocks[t][x_block[t]])
    /\ x_pc[u] = "acq_link"
    /\ x_pred[u] = to_int(t, x_block[t])

(* ---------------------------------------------------------------------- *)
(* Properties of the reader-writer lock                                    *)
(* ---------------------------------------------------------------------- *)
\* the thread is between the return of its acquire and its call of release
RwWriterHolds(t) == rw_pc[t] = "w_held"
RwReaderHolds(t) == rw_pc[t] = "r_held"

\* the thread runs reader_acquire / writer_acquire and its tail swap is done
RwReaderEnqueued(t) ==
  rw_pc[t] \in {"ra_inc_self", "ra_unblock_self", "ra_cas", "ra_link", "ra_spin",
                "ra_join_inc", "ra_join_link", "ra_join_unblock", "ra_check_succ",
                "ra_wait_succ", "ra_succ_inc", "ra_succ_unblock"}
RwWriterEnqueued(t) ==
  rw_pc[t] \in {"wa_set_nw", "wa_check_cnt", "wa_swap_nw", "wa_unblock_self",
                "wa_set_class", "wa_link", "wa_spin"}

\* the thread is inside reader_release / writer_release
RwReaderReleasing(t) ==
  rw_pc[t] \in {"rr_wait_succ", "rr_set_nw", "rr_dec", "rr_load_nw", "rr_check_cnt",
                "rr_cas_nw", "rr_wake"}
RwWriterReleasing(t) == rw_pc[t] \in {"wr_wait_succ", "wr_inc", "wr_unblock"}

\* C2: a thread that holds the lock as a writer overlaps with no other writer
\* holder and with no reader holder.
C2_WriterExcludesAll ==
  \A t, u \in RwThreads :
    (t # u /\ RwWriterHolds(t)) => (~RwWriterHolds(u) /\ ~RwReaderHolds(u))

\* C8: readers_count > 0 implies that no writer holds the lock, and a writer
\* holding the lock implies readers_count = 0.
C8_CountExcludesWriter ==
  /\ readers_count_ > 0 => \A t \in RwThreads : ~RwWriterHolds(t)
  /\ (\E t \in RwThreads : RwWriterHolds(t)) => readers_count_ = 0

\* C7: under fair scheduling every reader_acquire and every writer_acquire that
\* has swapped itself into the tail returns; no waiting node stays blocked
\* forever.
C7_RwAcquireEventuallyReturns ==
  \A t \in RwPoolThreads :
    (RwReaderEnqueued(t) \/ RwWriterEnqueued(t))
      ~> (RwReaderHolds(t) \/ RwWriterHolds(t))

\* C7 witness: a writer that announced itself in next_writer waits, blocked,
\* for the last active reader, which has called release and has not
\* decremented readers_count yet.
C7_Witness_WriterWaitsForLastReader ==
  \E w, r \in RwPoolThreads :
    /\ rw_pc[w] = "wa_spin" /\ is_blocked(RwMy(w))
    /\ next_writer_ = w
    /\ rw_pc[r] = "rr_dec"
    /\ readers_count_ = 1

\* the thread's node is in use and is a reader's / a writer's
RwIsReader(t) == rw_pc[t] # "idle" /\ is_reader(RwMy(t))
RwIsWriter(t) == rw_pc[t] # "idle" /\ ~is_reader(RwMy(t))

\* the thread's tail swap is done and the blocked flag of its node is cleared
RwGranted(t) ==
  /\ rw_pc[t] \notin {"idle", "ra_xchg", "wa_xchg"}
  /\ ~is_blocked(RwMy(t))

\* the thread has called reader_release / writer_release and is still inside
RwReleasing(t) == RwReaderReleasing(t) \/ RwWriterReleasing(t)

\* C6: grants follow the order of the tail swaps across cohorts: when a thread
\* has been granted the lock, every thread whose tail swap came earlier and
\* that is of the other class, or is a writer too, has already been granted the
\* lock and has called its release (only readers of one cohort hold together).
C6_FifoAcrossCohorts ==
  \A i, j \in 1 .. Len(rw_order) :
    (/\ i < j
     /\ RwIsWriter(rw_order[i]) \/ RwIsWriter(rw_order[j])
     /\ RwGranted(rw_order[j]))
      => RwReleasing(rw_order[i])

\* C6 witness: readers A and B hold together while writer W, enqueued after
\* them, and reader C, enqueued after W, are both still blocked.
C6_Witness_ReadersThenWriterThenReader ==
  /\ Len(rw_order) = 4
  /\ RwReaderHolds(rw_order[1]) /\ RwReaderHolds(rw_order[2])
  /\ rw_pc[rw_order[3]] = "wa_spin" /\ is_blocked(RwMy(rw_order[3]))
  /\ rw_pc[rw_order[4]] = "ra_spin" /\ is_blocked(RwMy(rw_order[4]))

\* readers whose blocked flag is cleared and whose reader_release has not
\* decremented readers_count yet: granted and not released
RwGrantedReaders ==
  {t \in RwThreads :
     /\ RwIsReader(t)
     /\ RwGranted(t)
     /\ rw_pc[t] \notin {"rr_load_nw", "rr_check_cnt", "rr_cas_nw", "rr_wake"}}

\* readers whose grant is in progress: readers_count was incremented for them,
\* by themselves or by their predecessor, and their blocked flag is still set
RwCountedBlockedReaders ==
  {t \in RwThreads :
     \/ rw_pc[t] \in {"ra_unblock_self", "ra_join_link", "ra_join_unblock"}
     \/ /\ rw_pc[t] = "ra_spin" /\ is_blocked(RwMy(t))
        /\ \E p \in RwThreads :
             /\ rw_pc[p] \in {"ra_succ_unblock", "wr_unblock"}
             /\ RwMy(p).successor_thread_id_ = t
             /\ RwMy(p).successor_block_index_ = rw_block[t]}

\* C9 as claimed: readers_count is exactly the number of readers that have been
\* granted the lock and have not released it; it counts no still-blocked reader.
C9_CountIsGrantedReaders == readers_count_ = Cardinality(RwGrantedReaders)

\* C9 amended: readers_count is exactly the number of readers that have been
\* granted and have not released plus the number of readers whose grant is in
\* progress (counted, blocked flag not cleared yet); so it never under-counts a
\* granted reader, never counts a released reader and never underflows.
C9_CountIsGrantedOrBeingGranted ==
  readers_count_ = Cardinality(RwGrantedReaders \cup RwCountedBlockedReaders)

\* C9 witness: one reader holds the lock and a second reader, joining it, has
\* incremented readers_count to 2 and has not cleared its own blocked flag yet.
C9_Witness_JoiningReaderCounted ==
  \E t, u \in RwThreads :
    /\ RwReaderHolds(t)
    /\ rw_pc[u] = "ra_join_unblock" /\ is_blocked(RwMy(u))
    /\ readers_count_ = 2

\* a writer that has swapped itself into the tail, is still blocked and has
\* only readers, some of them granted, before it in the queue
RwWriterBehindActiveCohort(w) ==
  /\ RwWriterEnqueued(w)
  /\ is_blocked(RwMy(w))
  /\ RwGrantedReaders # {}
  /\ \A i, j \in 1 .. Len(rw_order) :
       (i < j /\ rw_order[j] = w) => RwIsReader(rw_order[i])

\* a writer that waits for its blocked flag to be cleared by somebody else
RwWriterWaiting(w) ==
  /\ rw_pc[w] \in {"wa_check_cnt", "wa_swap_nw", "wa_spin"}
  /\ is_blocked(RwMy(w))

\* the threads about to clear the blocked flag of writer w through next_writer
RwWakersOf(w) ==
  {t \in RwThreads : rw_pc[t] = "rr_wake" /\ rw_w[t] = w}
    \cup {t \in RwThreads : t = w /\ rw_pc[t] = "wa_unblock_self"}

\* C10 as claimed: next_writer is 0xFFFF whenever no writer is queued behind an
\* active reader cohort, otherwise it is the thread id of a writer waiting
\* behind that cohort; that writer is woken exactly once, by a releasing reader.
C10_NextWriterIffBehindCohort ==
  /\ (~ \E w \in RwThreads : RwWriterBehindActiveCohort(w))
       => next_writer_ = kNextWriterNone
  /\ (\E w \in RwThreads : RwWriterBehindActiveCohort(w))
       => (next_writer_ \in RwThreads /\ RwWriterBehindActiveCohort(next_writer_))
  /\ \A t \in RwThreads :
       rw_pc[t] = "rr_wake"
         => (RwWriterWaiting(rw_w[t]) /\ Cardinality(RwWakersOf(rw_w[t])) = 1)

\* C10 amended: whenever next_writer is not 0xFFFF it is the thread id of
\* exactly one writer that has swapped itself into the tail and is still
\* blocked (a writer that found no predecessor announces itself even when no
\* reader is active, and a writer linked behind an active reader is announced
\* only when that reader releases); the announced writer is unblocked exactly
\* once, by whoever takes next_writer back to 0xFFFF: a releasing reader whose
\* decrement made readers_count 0, or the writer itself.
C10_NextWriterNamesWaitingWriter ==
  /\ has_next_writer(next_writer_)
       => (next_writer_ \in RwThreads /\ RwWriterWaiting(next_writer_)
           /\ RwWakersOf(next_writer_) = {})
  /\ \A t \in RwThreads :
       rw_pc[t] = "rr_wake"
         => (/\ rw_w[t] \in RwThreads
             /\ rw_pc[rw_w[t]] \in {"wa_check_cnt", "wa_swap_nw", "wa_spin"}
             /\ is_blocked(RwMy(rw_w[t]))
             /\ Cardinality(RwWakersOf(rw_w[t])) = 1)
  /\ \A w \in RwThreads :
       rw_pc[w] = "wa_unblock_self"
         => (is_blocked(RwMy(w)) /\ Cardinality(RwWakersOf(w)) = 1)

\* C10 witness: the last reader of a cohort has taken next_writer back to
\* 0xFFFF and is about to wake the writer, which is still blocked.
C10_Witness_ReaderAboutToWake ==
  \E t \in RwThreads :
    /\ rw_pc[t] = "rr_wake"
    /\ next_writer_ = kNextWriterNone
    /\ rw_pc[rw_w[t]] = "wa_spin" /\ is_blocked(RwMy(rw_w[t]))
    /\ readers_count_ = 0

(* ---------------------------------------------------------------------- *)
(* Lock words at rest and shape of the queues                              *)
(* ---------------------------------------------------------------------- *)
\* the thread's tail swap is done and its release has not completed: it holds
\* the lock or waits for it
XEnqueued(t) == x_pc[t] \in {"acq_link", "acq_spin", "held", "rel_wait", "rel_signal"}

\* C11: the tail_block field of the exclusive lock word is 0 exactly when no
\* thread holds the lock and no thread waits for it, is_locked() is true iff
\* someone holds or waits, and once every acquirer has released the whole word
\* is 0 again.
C11_TailBlockZeroIffFree ==
  /\ (get_tail_waiter_block(lock_data) = 0) <=> (\A t \in McsThreads : ~XEnqueued(t))
  /\ is_locked(lock_data) <=> (\E t \in McsThreads : XEnqueued(t))
  /\ (\A t \in McsThreads : x_pc[t] = "idle") => lock_data = U32(0, 0)

\* C11 witness: three threads have acquired in turn and released; all are idle
\* again with used queue nodes and the word is 0.
C11_Witness_AllReleased ==
  /\ \A t \in McsThreads : x_pc[t] = "idle" /\ mcs_block_current[t] > 0
  /\ lock_data = U32(0, 0)

\* C12: once every granted reader and writer has released and no request is
\* pending, the reader-writer lock is back in its reset state: tail = 0,
\* readers_count = 0 and next_writer = 0xFFFF.
C12_RwIdleIsReset ==
  (\A t \in RwThreads : rw_pc[t] = "idle")
    => (/\ tail_ = U32(0, 0)
        /\ readers_count_ = 0
        /\ next_writer_ = kNextWriterNone
        /\ ~rw_is_locked(tail_))

\* C12 witness: every thread has acquired and released and is idle again with
\* a used queue node.
C12_Witness_AllRwReleased ==
  /\ \A t \in RwPoolThreads : rw_pc[t] = "idle" /\ rw_block_current[t] > 0
  /\ tail_ = U32(0, 0)
  /\ next_writer_ = kNextWriterNone

\* the threads whose current request is a reader's (inside reader_acquire,
\* holding as reader, or inside reader_release)
RwReaderRequests == {t \in RwThreads : RwIsReader(t)}

\* C13: readers_count never exceeds the number k of readers that have called
\* reader_acquire and not finished their release (at most the number of
\* threads); readers that no writer separates may hold together.
C13_CountAtMostReaders ==
  /\ readers_count_ <= Cardinality(RwReaderRequests)
  /\ readers_count_ <= MaxRwThreads

\* C13 witness: four readers acquired an idle lock with no writer between
\* them; all four hold at once and readers_count is 4.
C13_Witness_FourReadersHold ==
  /\ Cardinality({t \in RwThreads : RwReaderHolds(t)}) = 4
  /\ readers_count_ = 4

\* paths of up to 8 links of the relation R
Compose(R) ==
  R \cup {<<ab[1][1], ab[2][2]>> : ab \in {q \in R \X R : q[1][2] = q[2][1]}}
Paths(R) == Compose(Compose(Compose(R)))

\* the successor links between nodes that are in the queue of the exclusive
\* lock, and of the reader-writer lock
XLinks ==
  {<<t, u>> \in McsThreads \X McsThreads :
     /\ XEnqueued(t) /\ XEnqueued(u)
     /\ has_successor(mcs_blocks[t][x_block[t]])
     /\ get_successor_thread_id(mcs_blocks[t][x_block[t]]) = u
     /\ get_successor_block(mcs_blocks[t][x_block[t]]) = x_block[u]}

RwInQueue(t) == \E i \in 1 .. Len(rw_order) : rw_order[i] = t

RwLinks ==
  {<<t, u>> \in RwThreads \X RwThreads :
     /\ RwInQueue(t) /\ RwInQueue(u)
     /\ successor_is_ready(RwMy(t))
     /\ RwMy(t).successor_thread_id_ = u
     /\ RwMy(t).successor_block_index_ = rw_block[u]}

XPos(t) == CHOOSE i \in 1 .. Len(x_order) : x_order[i] = t
RwPos(t) == CHOOSE i \in 1 .. Len(rw_order) : rw_order[i] = t

\* C14 as claimed: in either lock the successor links form one chain that
\* starts at the holder's node (the oldest enqueued node), visits every
\* enqueued node once, in queue order, and ends at the node named by the
\* tail; no node is reachable from itself.
C14_SingleChainToTail ==
  /\ \A t \in McsThreads : <<t, t>> \notin Paths(XLinks)
  /\ \A t \in RwThreads : <<t, t>> \notin Paths(RwLinks)
  /\ \A i \in 1 .. Len(x_order) - 1 : <<x_order[i], x_order[i + 1]>> \in XLinks
  /\ Len(x_order) > 0
       => lock_data = to_int(x_order[Len(x_order)], x_block[x_order[Len(x_order)]])
  /\ \A i \in 1 .. Len(rw_order) - 1 : <<rw_order[i], rw_order[i + 1]>> \in RwLinks
  /\ Len(rw_order) > 0
       => tail_ = to_tail_int(rw_order[Len(rw_order)], rw_block[rw_order[Len(rw_order)]])

\* C14 amended: in either lock no enqueued node is reachable from itself and
\* every successor link between enqueued nodes leads from a node to one whose
\* tail swap came later. In the exclusive lock the links join the enqueued
\* nodes in queue order, except that the link to a node that has swapped the
\* tail and not linked itself yet is still missing, and the newest enqueued
\* node is the one named by the tail. In the reader-writer lock a link to the
\* newest nodes may be missing in the same way, readers leave the queue from
\* its middle (the link of their predecessor is left behind), and the tail is
\* either 0 or names the newest enqueued node.
C14_LinksFollowQueueOrder ==
  /\ \A t \in McsThreads : <<t, t>> \notin Paths(XLinks)
  /\ \A t \in RwThreads : <<t, t>> \notin Paths(RwLinks)
  /\ \A p \in XLinks : XPos(p[1]) + 1 = XPos(p[2])
  /\ \A i \in 1 .. Len(x_order) - 1 :
       \/ <<x_order[i], x_order[i + 1]>> \in XLinks
       \/ /\ ~has_successor(mcs_blocks[x_order[i]][x_block[x_order[i]]])
          /\ x_pc[x_order[i + 1]] = "acq_link"
  /\ Len(x_order) > 0
       => /\ lock_data = to_int(x_order[Len(x_order)], x_block[x_order[Len(x_order)]])
          /\ ~has_successor(mcs_blocks[x_order[Len(x_order)]][x_block[x_order[Len(x_order)]]])
  /\ \A p \in RwLinks : RwPos(p[1]) < RwPos(p[2])
  /\ (Len(rw_order) > 0 /\ tail_ # U32(0, 0))
       => /\ tail_ = to_tail_int(rw_order[Len(rw_order)], rw_block[rw_order[Len(rw_order)]])
          /\ ~successor_is_ready(RwMy(rw_order[Len(rw_order)]))

\* C14 witness (exclusive lock): the holder's node links to the second node,
\* whose successor has swapped the tail and has not linked itself yet.
C14_Witness_ChainWithPendingLink ==
  /\ Len(x_order) = 3
  /\ XHolds(x_order[1])
  /\ <<x_order[1], x_order[2]>> \in XLinks
  /\ x_pc[x_order[3]] = "acq_link"

(* ---------------------------------------------------------------------- *)
(* Scoped acquisition (spec.md 4.5)                                        *)
(* ---------------------------------------------------------------------- *)
\* A scope call that takes or releases the lock is a call of the thread's
\* acquire / release of that lock: the scope enters the call, the thread runs
\* the steps of the lock protocol, and the scope stores the outcome when the
\* call returns.
ScopeTypes == {"McsLockScope", "McsRwLockScope"}

ScopeIdle(t) == ~sc_call[t].active
GuestIdle(g) == ~ol_call[g].active

\* the scope object (or the PageVersionLockScope, slot 0) a call works on
CallScope(t) ==
  IF sc_call[t].slot = 0 THEN pv_scope[t] ELSE scopes[t][sc_call[t].slot]

\* the context thread is granted the lock the scope is attached to, is outside
\* any acquire / release of it, and the block of its grant
CtxHolds(sc, t) ==
  IF sc.type = "McsRwLockScope"
  THEN rw_pc[t] = (IF sc.as_reader_ THEN "r_held" ELSE "w_held")
  ELSE x_pc[t] = "held"
CtxIdle(sc, t) ==
  IF sc.type = "McsRwLockScope" THEN rw_pc[t] = "idle" ELSE x_pc[t] = "idle"
CtxBlock(sc, t) ==
  IF sc.type = "McsRwLockScope" THEN rw_block[t] ELSE x_block[t]

\* no scope of the thread owns a block: the locks are not re-entrant, a
\* thread acquires only when it does not hold already
NoOtherHolder(t) ==
  /\ \A s \in Slots : scopes[t][s].block_ = 0
  /\ pv_scope[t].block_ = 0

\* the runs use one kind of scope (and so one lock) at a time: the locks
\* share no state
NoOwnerlessScopes == \A g \in Guests : ~ol_scopes[g].live
NoScopesOfOtherType(ty) ==
  \A t \in ScopeThreads :
    /\ \A s \in Slots : scopes[t][s].live => scopes[t][s].type = ty
    /\ pv_scope[t].live => pv_scope[t].type = ty
ScopeFamilyFree(ty) ==
  /\ NoOwnerlessScopes
  /\ NoScopesOfOtherType(ty)
  /\ IF ty = "McsRwLockScope"
     THEN \A t \in McsThreads : x_pc[t] = "idle" /\ mcs_block_current[t] = 0
     ELSE \A t \in RwThreads : rw_pc[t] = "idle" /\ rw_block_current[t] = 0
OwnerlessFamilyFree ==
  /\ \A t \in ScopeThreads : ~pv_scope[t].live /\ \A s \in Slots : ~scopes[t][s].live
  /\ \A t \in McsThreads : x_pc[t] = "idle" /\ mcs_block_current[t] = 0
  /\ \A t \in RwThreads : rw_pc[t] = "idle" /\ rw_block_current[t] = 0

\* acquire(): "Does nothing if already acquired or !is_valid()"; otherwise the
\* scope enters the context's acquire of the lock
AcquireCall(s, sc) ==
  IF scope_is_valid(sc) /\ ~scope_is_locked(sc)
  THEN [op |-> "acquire", slot |-> s, from |-> 0, active |-> TRUE]
  ELSE NoCall

\* release(): "Does nothing if not [acquired] or !is_valid()"; otherwise the
\* scope enters the context's release of the lock with its block index. A
\* release of a lock the context does not hold with that block is recorded.
ReleaseCall(t, op, s, from, sc) ==
  IF scope_is_valid(sc) /\ scope_is_locked(sc)
  THEN IF CtxHolds(sc, t) /\ CtxBlock(sc, t) = sc.block_
       THEN /\ sc_call' = [sc_call EXCEPT ![t] =
                             [op |-> op, slot |-> s, from |-> from, active |-> TRUE]]
            /\ sc_err' = sc_err
       ELSE /\ sc_call' = [sc_call EXCEPT ![t] = NoCall]
            /\ sc_err' = TRUE
  ELSE /\ sc_call' = [sc_call EXCEPT ![t] = NoCall]
       /\ sc_err' = sc_err

\* the constructors and initialize(): the default constructor attaches no
\* lock; acquire_now calls acquire()
scope_initialize(t, s, ty, lock, as_reader, acquire_now) ==
  /\ ScopeIdle(t)
  /\ ~scopes[t][s].live
  /\ ScopeFamilyFree(ty)
  /\ as_reader => ty = "McsRwLockScope"
  /\ (acquire_now /\ lock) => NoOtherHolder(t)
  /\ LET sc == [live |-> TRUE, type |-> ty, lock_ |-> lock, block_ |-> 0,
                as_reader_ |-> as_reader] IN
       /\ scopes' = [scopes EXCEPT ![t][s] = sc]
       /\ sc_call' = [sc_call EXCEPT ![t] =
                        IF acquire_now THEN AcquireCall(s, sc) ELSE NoCall]
  /\ UNCHANGED <<xvars, rwvars, idvars, appvars, pv_scope, ol_scopes, ol_call, sc_noop, sc_err>>

\* McsLockScope::acquire / McsRwLockScope::acquire
scope_acquire(t, s) ==
  /\ ScopeIdle(t)
  /\ scopes[t][s].live
  /\ AcquireCall(s, scopes[t][s]).active => NoOtherHolder(t)
  /\ sc_call' = [sc_call EXCEPT ![t] = AcquireCall(s, scopes[t][s])]
  /\ sc_noop' = (sc_noop # ~AcquireCall(s, scopes[t][s]).active)
  /\ UNCHANGED <<xvars, rwvars, idvars, appvars, scopes, pv_scope, ol_scopes, ol_call, sc_err>>

\* the context's acquire of the lock, called by acquire()
scope_acquire_step(t) ==
  /\ sc_call[t].active
  /\ sc_call[t].op = "acquire"
  /\ IF CallScope(t).type = "McsRwLockScope"
     THEN \/ CallScope(t).as_reader_ /\ reader_acquire_init(t)
          \/ ~CallScope(t).as_reader_ /\ writer_acquire_init(t)
          \/ rw_pc[t] \notin {"r_held", "w_held"} /\ RwStep(t)
     ELSE \/ acquire_lock_alloc(t)
          \/ x_pc[t] # "held" /\ McsStep(t)

\* acquire() stores the block index the context's acquire returned
scope_acquire_return(t) ==
  /\ sc_call[t].active
  /\ sc_call[t].op = "acquire"
  /\ CtxHolds(CallScope(t), t)
  /\ scopes' = [scopes EXCEPT ![t][sc_call[t].slot].block_ = CtxBlock(CallScope(t), t)]
  /\ sc_call' = [sc_call EXCEPT ![t] = NoCall]
  /\ UNCHANGED <<xvars, rwvars, idvars, appvars, sc_noop, pv_scope, ol_scopes, ol_call, sc_err>>

\* McsLockScope::release / McsRwLockScope::release
scope_release(t, s) ==
  /\ ScopeIdle(t)
  /\ scopes[t][s].live
  /\ ReleaseCall(t, "release", s, 0, scopes[t][s])
  /\ sc_noop' = (sc_noop # (~sc_call'[t].active /\ sc_err' = sc_err))
  /\ UNCHANGED <<xvars, rwvars, idvars, appvars, scopes, pv_scope, ol_scopes, ol_call>>

\* the destructors: release(), then the object is gone
scope_destroy(t, s) ==
  /\ ScopeIdle(t)
  /\ scopes[t][s].live
  /\ IF scope_is_valid(scopes[t][s]) /\ scope_is_locked(scopes[t][s])
     THEN /\ ReleaseCall(t, "destroy", s, 0, scopes[t][s])
          /\ scopes' = scopes
     ELSE /\ scopes' = [scopes EXCEPT ![t][s] = NoScope]
          /\ sc_call' = [sc_call EXCEPT ![t] = NoCall]
          /\ sc_err' = sc_err
  /\ UNCHANGED <<xvars, rwvars, idvars, appvars, sc_noop, pv_scope, ol_scopes, ol_call>>

\* the move constructors: the new object takes the lock and the block index,
\* the donor becomes empty
scope_move_construct(t, s, d) ==
  /\ ScopeIdle(t)
  /\ s # d
  /\ ~scopes[t][s].live
  /\ scopes[t][d].live
  /\ scopes' = [scopes EXCEPT ![t][s] = scopes[t][d], ![t][d].block_ = 0]
  /\ sc_call' = [sc_call EXCEPT ![t] = NoCall]
  /\ UNCHANGED <<xvars, rwvars, idvars, appvars, sc_noop, pv_scope, ol_scopes, ol_call, sc_err>>

\* the transfer of a move
MoveInto(t, s, d) ==
  scopes' = [scopes EXCEPT ![t][s] = scopes[t][d], ![t][d].block_ = 0]

\* operator=(&&): the target releases what it holds, then takes the lock and
\* the block index of the donor, which becomes empty
scope_move_assign(t, s, d) ==
  /\ ScopeIdle(t)
  /\ s # d
  /\ scopes[t][s].live
  /\ scopes[t][d].live
  /\ scopes[t][s].type = scopes[t][d].type
  /\ IF scope_is_valid(scopes[t][s]) /\ scope_is_locked(scopes[t][s])
     THEN /\ ReleaseCall(t, "move_assign", s, d, scopes[t][s])
          /\ scopes' = scopes
     ELSE /\ MoveInto(t, s, d)
          /\ sc_call' = [sc_call EXCEPT ![t] = NoCall]
          /\ sc_err' = sc_err
  /\ UNCHANGED <<xvars, rwvars, idvars, appvars, sc_noop, pv_scope, ol_scopes, ol_call>>

\* move_to(PageVersionLockScope*): the page-version lock scope takes over the
\* block of a scope that holds the lock; the donor becomes empty
scope_move_to(t, s) ==
  /\ ScopeIdle(t)
  /\ scopes[t][s].live
  /\ scope_is_locked(scopes[t][s])
  /\ ~pv_scope[t].live
  /\ pv_scope' = [pv_scope EXCEPT ![t] = scopes[t][s]]
  /\ scopes' = [scopes EXCEPT ![t][s].lock_ = FALSE, ![t][s].block_ = 0]
  /\ sc_call' = [sc_call EXCEPT ![t] = NoCall]
  /\ UNCHANGED <<xvars, rwvars, idvars, appvars, sc_noop, ol_scopes, ol_call, sc_err>>

\* the page-version lock scope, the new owner, releases the lock when it goes
pv_scope_destroy(t) ==
  /\ ScopeIdle(t)
  /\ pv_scope[t].live
  /\ ReleaseCall(t, "pv_destroy", 0, 0, pv_scope[t])
  /\ UNCHANGED <<xvars, rwvars, idvars, appvars, sc_noop, scopes, pv_scope, ol_scopes, ol_call>>

\* the context's release of the lock, called by release()
scope_release_step(t) ==
  /\ sc_call[t].active
  /\ sc_call[t].op \in {"release", "destroy", "move_assign", "pv_destroy"}
  /\ IF CallScope(t).type = "McsRwLockScope" THEN RwStep(t) ELSE McsStep(t)

\* release() clears the block index; a destructor ends the object, a move
\* assignment goes on to the transfer
scope_release_return(t) ==
  /\ sc_call[t].active
  /\ sc_call[t].op \in {"release", "destroy", "move_assign", "pv_destroy"}
  /\ CtxIdle(CallScope(t), t)
  /\ LET s == sc_call[t].slot
         d == sc_call[t].from IN
       CASE sc_call[t].op = "release" ->
              /\ scopes' = [scopes EXCEPT ![t][s].block_ = 0]
              /\ pv_scope' = pv_scope
         [] sc_call[t].op = "destroy" ->
              /\ scopes' = [scopes EXCEPT ![t][s] = NoScope]
              /\ pv_scope' = pv_scope
         [] sc_call[t].op = "move_assign" ->
              /\ MoveInto(t, s, d)
              /\ pv_scope' = pv_scope
         [] sc_call[t].op = "pv_destroy" ->
              /\ pv_scope' = [pv_scope EXCEPT ![t] = NoScope]
              /\ scopes' = scopes
  /\ sc_call' = [sc_call EXCEPT ![t] = NoCall]
  /\ UNCHANGED <<xvars, rwvars, idvars, appvars, sc_noop, ol_scopes, ol_call, sc_err>>

\* McsOwnerlessLockScope: constructors
ownerless_scope_initialize(g, lock, acquire_now) ==
  /\ GuestIdle(g)
  /\ ~ol_scopes[g].live
  /\ OwnerlessFamilyFree
  /\ LET sc == [live |-> TRUE, lock_ |-> lock, locked_by_me_ |-> FALSE] IN
       /\ ol_scopes' = [ol_scopes EXCEPT ![g] = sc]
       /\ ol_call' = [ol_call EXCEPT ![g] =
                        IF acquire_now /\ McsOwnerlessLockScope_is_valid(sc)
                        THEN [op |-> "acquire", slot |-> 0, from |-> 0, active |-> TRUE]
                        ELSE NoCall]
  /\ UNCHANGED <<xvars, rwvars, idvars, appvars, sc_noop, scopes, pv_scope, sc_call, sc_err>>

\* McsOwnerlessLockScope::acquire
ownerless_scope_acquire(g) ==
  /\ GuestIdle(g)
  /\ ol_scopes[g].live
  /\ ol_call' = [ol_call EXCEPT ![g] =
                   IF /\ McsOwnerlessLockScope_is_valid(ol_scopes[g])
                      /\ ~is_locked_by_me(ol_scopes[g])
                   THEN [op |-> "acquire", slot |-> 0, from |-> 0, active |-> TRUE]
                   ELSE NoCall]
  /\ sc_noop' = (sc_noop # ~ol_call'[g].active)
  /\ UNCHANGED <<xvars, rwvars, idvars, appvars, scopes, pv_scope, ol_scopes, sc_call, sc_err>>

\* McsLock::ownerless_acquire_lock, called by acquire()
ownerless_scope_acquire_step(g) ==
  /\ ol_call[g].active
  /\ ol_call[g].op = "acquire"
  /\ ownerless_acquire_lock(g)

ownerless_scope_acquire_return(g) ==
  /\ ol_call[g].active
  /\ ol_call[g].op = "acquire"
  /\ guest_pc[g] = "held"
  /\ ol_scopes' = [ol_scopes EXCEPT ![g].locked_by_me_ = TRUE]
  /\ ol_call' = [ol_call EXCEPT ![g] = NoCall]
  /\ UNCHANGED <<xvars, rwvars, idvars, appvars, sc_noop, scopes, pv_scope, sc_call, sc_err>>

\* release() of the ownerless scope
OwnerlessReleaseCall(g, op) ==
  IF McsOwnerlessLockScope_is_valid(ol_scopes[g]) /\ is_locked_by_me(ol_scopes[g])
  THEN IF guest_pc[g] = "held"
       THEN /\ ol_call' = [ol_call EXCEPT ![g] =
                             [op |-> op, slot |-> 0, from |-> 0, active |-> TRUE]]
            /\ sc_err' = sc_err
       ELSE /\ ol_call' = [ol_call EXCEPT ![g] = NoCall]
            /\ sc_err' = TRUE
  ELSE /\ ol_call' = [ol_call EXCEPT ![g] = NoCall]
       /\ sc_err' = sc_err

\* McsOwnerlessLockScope::release
ownerless_scope_release(g) ==
  /\ GuestIdle(g)
  /\ ol_scopes[g].live
  /\ OwnerlessReleaseCall(g, "release")
  /\ sc_noop' = (sc_noop # (~ol_call'[g].active /\ sc_err' = sc_err))
  /\ UNCHANGED <<xvars, rwvars, idvars, appvars, scopes, pv_scope, ol_scopes, sc_call>>

\* ~McsOwnerlessLockScope
ownerless_scope_destroy(g) ==
  /\ GuestIdle(g)
  /\ ol_scopes[g].live
  /\ IF McsOwnerlessLockScope_is_valid(ol_scopes[g]) /\ is_locked_by_me(ol_scopes[g])
     THEN /\ OwnerlessReleaseCall(g, "destroy")
          /\ ol_scopes' = ol_scopes
     ELSE /\ ol_scopes' = [ol_scopes EXCEPT ![g] = NoOwnerlessScope]
          /\ ol_call' = [ol_call EXCEPT ![g] = NoCall]
          /\ sc_err' = sc_err
  /\ UNCHANGED <<xvars, rwvars, idvars, appvars, sc_noop, scopes, pv_scope, sc_call>>

\* McsLock::ownerless_release_lock, called by release()
ownerless_scope_release_step(g) ==
  /\ ol_call[g].active
  /\ ol_call[g].op \in {"release", "destroy"}
  /\ ownerless_release_lock(g)

ownerless_scope_release_return(g) ==
  /\ ol_call[g].active
  /\ ol_call[g].op \in {"release", "destroy"}
  /\ guest_pc[g] = "idle"
  /\ ol_scopes' = [ol_scopes EXCEPT ![g] =
                     IF ol_call[g].op = "destroy" THEN NoOwnerlessScope
                     ELSE [ol_scopes[g] EXCEPT !.locked_by_me_ = FALSE]]
  /\ ol_call' = [ol_call EXCEPT ![g] = NoCall]
  /\ UNCHANGED <<xvars, rwvars, idvars, appvars, sc_noop, scopes, pv_scope, sc_call, sc_err>>

\* a thread outside any call returns its queue nodes to its pool
scope_release_block(t) ==
  /\ ScopeIdle(t)
  /\ \/ release_block(t)
     \/ rw_release_block(t)

NextScope ==
  \/ \E t \in ScopeThreads : \E s \in SlotsOf(t), ty \in ScopeTypes, lock, as_reader, now \in BOOLEAN :
       scope_initialize(t, s, ty, lock, as_reader, now)
  \/ \E t \in ScopeThreads : \E s \in SlotsOf(t) : scope_acquire(t, s)
  \/ \E t \in ScopeThreads : scope_acquire_step(t)
  \/ \E t \in ScopeThreads : scope_acquire_return(t)
  \/ \E t \in ScopeThreads : \E s \in SlotsOf(t) : scope_release(t, s)
  \/ \E t \in ScopeThreads : \E s \in SlotsOf(t) : scope_destroy(t, s)
  \/ \E t \in ScopeThreads : \E s, d \in SlotsOf(t) : scope_move_construct(t, s, d)
  \/ \E t \in ScopeThreads : \E s, d \in SlotsOf(t) : scope_move_assign(t, s, d)
  \/ \E t \in ScopeThreads : \E s \in SlotsOf(t) : scope_move_to(t, s)
  \/ \E t \in ScopeThreads : pv_scope_destroy(t)
  \/ \E t \in ScopeThreads : scope_release_step(t)
  \/ \E t \in ScopeThreads : scope_release_return(t)
  \/ \E t \in ScopeThreads : scope_release_block(t)
  \/ \E g \in Guests, lock, now \in BOOLEAN : ownerless_scope_initialize(g, lock, now)
  \/ \E g \in Guests : ownerless_scope_acquire(g)
  \/ \E g \in Guests : ownerless_scope_acquire_step(g)
  \/ \E g \in Guests : ownerless_scope_acquire_return(g)
  \/ \E g \in Guests : ownerless_scope_release(g)
  \/ \E g \in Guests : ownerless_scope_destroy(g)
  \/ \E g \in Guests : ownerless_scope_release_step(g)
  \/ \E g \in Guests : ownerless_scope_release_return(g)

\* threads and guests that use the locks only through scope objects
SpecScope == Init /\ [][NextScope]_vars

(* ---------------------------------------------------------------------- *)
(* Properties of scoped acquisition                                        *)
(* ---------------------------------------------------------------------- *)
\* owners of thread t (scope objects and the page-version lock scope) that
\* have a block index
OwnerCount(t) ==
  Cardinality({s \in Slots : scopes[t][s].block_ # 0})
    + (IF pv_scope[t].block_ # 0 THEN 1 ELSE 0)

\* the thread is inside acquire / release of one of the locks, or holds one
ThreadInLock(t) == x_pc[t] # "idle" \/ rw_pc[t] # "idle"

NoLiveScope(t) == ~pv_scope[t].live /\ \A s \in Slots : ~scopes[t][s].live

ScopeBookkeeping ==
  /\ ~sc_err
  /\ \A t \in ScopeThreads :
       /\ OwnerCount(t) <= 1
       /\ ScopeIdle(t) => (ThreadInLock(t) <=> OwnerCount(t) = 1)
       /\ \A s \in Slots :
            (ScopeIdle(t) /\ scopes[t][s].block_ # 0)
              => /\ CtxHolds(scopes[t][s], t)
                 /\ CtxBlock(scopes[t][s], t) = scopes[t][s].block_
       /\ NoLiveScope(t) => (ScopeIdle(t) /\ ~ThreadInLock(t))
  /\ \A g \in Guests :
       /\ GuestIdle(g) => (guest_pc[g] = "held" <=> ol_scopes[g].locked_by_me_)
       /\ ~ol_scopes[g].live => (GuestIdle(g) /\ guest_pc[g] = "idle")

\* a destructor of a scope that holds nothing returns at once and leaves both
\* locks and their queue nodes as they are
DestroyOfNonHolderIsLocal ==
  /\ \A t \in ScopeThreads : \A s \in Slots :
       (scope_destroy(t, s) /\ scopes[t][s].block_ = 0)
         => (UNCHANGED <<xvars, rwvars>> /\ ~sc_call'[t].active)
  /\ \A g \in Guests :
       (ownerless_scope_destroy(g) /\ ~ol_scopes[g].locked_by_me_)
         => (UNCHANGED <<xvars, rwvars>> /\ ~ol_call'[g].active)

MoveStep(t, s, d) ==
  \/ scope_move_construct(t, s, d)
  \/ scope_move_assign(t, s, d) /\ ~sc_call'[t].active /\ sc_err' = sc_err
  \/ /\ scope_release_return(t)
     /\ sc_call[t].op = "move_assign"
     /\ sc_call[t].slot = s
     /\ sc_call[t].from = d

MoveTransfersBlock ==
  \A t \in ScopeThreads :
    /\ \A s, d \in Slots :
         MoveStep(t, s, d)
           => /\ scopes'[t][s].block_ = scopes[t][d].block_
              /\ scopes'[t][d].block_ = 0
              /\ ~scope_is_locked(scopes'[t][d])
              /\ UNCHANGED <<xvars, rwvars>>
    /\ \A s \in Slots :
         scope_move_to(t, s)
           => /\ pv_scope'[t].block_ = scopes[t][s].block_
              /\ scopes'[t][s].block_ = 0
              /\ ~scope_is_locked(scopes'[t][s])
              /\ UNCHANGED <<xvars, rwvars>>

NoOpCallsChangeNothing ==
  /\ \A t \in ScopeThreads : \A s \in Slots :
       /\ (scope_acquire(t, s) /\ (~scopes[t][s].lock_ \/ scopes[t][s].block_ # 0))
            => (UNCHANGED <<xvars, rwvars, scopes, pv_scope>> /\ ~sc_call'[t].active)
       /\ (scope_release(t, s) /\ (~scopes[t][s].lock_ \/ scopes[t][s].block_ = 0))
            => (UNCHANGED <<xvars, rwvars, scopes, pv_scope>> /\ ~sc_call'[t].active)
  /\ \A g \in Guests :
       /\ (ownerless_scope_acquire(g)
             /\ (~ol_scopes[g].lock_ \/ ol_scopes[g].locked_by_me_))
            => (UNCHANGED <<xvars, rwvars, ol_scopes>> /\ ~ol_call'[g].active)
       /\ (ownerless_scope_release(g)
             /\ (~ol_scopes[g].lock_ \/ ~ol_scopes[g].locked_by_me_))
            => (UNCHANGED <<xvars, rwvars, ol_scopes>> /\ ~ol_call'[g].active)

XctStoreAs(n, x, call) ==
  /\ ~xct_call.aborted
  /\ xid' = [xid EXCEPT ![n] = x]
  /\ xct_evaluated' = FALSE
  /\ xct_cmp' = [p \in StampPairs |-> 0]
  /\ xct_bef' = [p \in StampPairs |-> FALSE]
  /\ xct_call' = call
  /\ UNCHANGED <<xvars, rwvars, scvars, appvars>>

XctStore(n, x) == XctStoreAs(n, x, NoXctCall)

\* XctId::set, within its assertions
xct_set(n, epoch_int, ordinal) ==
  /\ epoch_int < kEpochIntOverflow
  /\ ordinal <= kMaxXctOrdinal
  /\ XctStore(n, XctId_set(epoch_int, ordinal))

xct_set_being_written(n) ==
  /\ XctId_is_valid(xid[n])
  /\ XctStore(n, set_being_written(xid[n]))

xct_set_write_complete(n) ==
  /\ XctId_is_valid(xid[n])
  /\ XctStore(n, set_write_complete(xid[n]))

xct_set_deleted(n) ==
  /\ XctId_is_valid(xid[n])
  /\ XctStore(n, set_deleted(xid[n]))

xct_set_notdeleted(n) ==
  /\ XctId_is_valid(xid[n])
  /\ XctStore(n, set_notdeleted(xid[n]))

xct_set_moved(n) ==
  /\ XctId_is_valid(xid[n])
  /\ XctStore(n, set_moved(xid[n]))

xct_set_next_layer(n) ==
  /\ XctId_is_valid(xid[n])
  /\ XctStore(n, set_next_layer(xid[n]))

\* the commit protocol compares the stamps: compare_epoch_and_orginal and
\* before of every pair, within their preconditions (valid stamps, non-zero
\* ordinals)
xct_compare ==
  /\ ~xct_evaluated
  /\ \A n \in StampNames : XctId_is_valid(xid[n]) /\ get_ordinal(xid[n]) # 0
  /\ xct_evaluated' = TRUE
  /\ xct_cmp' = [p \in StampPairs |-> compare_epoch_and_orginal(xid[p[1]], xid[p[2]])]
  /\ xct_bef' = [p \in StampPairs |-> before(xid[p[1]], xid[p[2]])]
  /\ UNCHANGED <<xid, xct_call, xvars, rwvars, scvars, appvars>>

NextXct ==
  \/ \E n \in StampNames, e \in EpochSamples, o \in OrdinalSamples : xct_set(n, e, o)
  \/ xct_set_being_written("a")
  \/ xct_set_write_complete("a")
  \/ \E n \in FlaggedStamps : xct_set_deleted(n)
  \/ xct_set_notdeleted("a")
  \/ xct_set_moved("a")
  \/ \E n \in FlaggedStamps : xct_set_next_layer(n)
  \/ xct_compare

\* stamps that are set, flagged and compared in any order
SpecXct == Init /\ [][NextXct]_vars

(* ---------------------------------------------------------------------- *)
(* Properties of the version stamp order                                   *)
(* ---------------------------------------------------------------------- *)
\* distance from epoch x forward to epoch y in the 28-bit cyclic space
EpochDistance(x, y) == (y - x + kEpochIntOverflow) % kEpochIntOverflow

\* C18 as claimed: compare is antisymmetric, compare(a,b) = -compare(b,a),
\* for every pair of valid stamps with non-zero ordinals, also for epochs
\* exactly half the epoch space apart.
C18_CompareAntisymmetric ==
  xct_evaluated
    => \A p \in StampPairs : xct_cmp[p] = -xct_cmp[<<p[2], p[1]>>]

\* where compare is not antisymmetric: only between epochs exactly half the
\* epoch space apart, where neither epoch is less than the other and the
\* debug assertion of compare fails
C18_AntisymmetricExceptHalfApart ==
  xct_evaluated
    => \A p \in StampPairs :
         \/ xct_cmp[p] = -xct_cmp[<<p[2], p[1]>>]
         \/ /\ EpochDistance(get_epoch_int(xid[p[1]]), get_epoch_int(xid[p[2]]))
                 = kEpochIntHalf
            /\ ~compare_epoch_and_orginal_asserts(xid[p[1]], xid[p[2]])
            /\ xct_cmp[p] = 1
            /\ xct_cmp[<<p[2], p[1]>>] = 1

\* C19 as claimed: compare is transitive over all valid stamps with non-zero
\* ordinals, for every triple of epochs.
C19_CompareTransitive ==
  xct_evaluated
    => \A i, j, k \in StampNames :
         (xct_cmp[<<i, j>>] < 0 /\ xct_cmp[<<j, k>>] < 0) => xct_cmp[<<i, k>>] < 0

\* C19 amended: compare is transitive over the triples of valid stamps with
\* non-zero ordinals whose epochs lie, in the order a, b, c, within less than
\* half of the epoch space: compare(a,b) < 0 and compare(b,c) < 0 imply
\* compare(a,c) < 0 when the distances from a's epoch to b's and from b's to
\* c's add up to less than 2^27.
C19_TransitiveWithinHalfSpace ==
  xct_evaluated
    => \A i, j, k \in StampNames :
         (/\ EpochDistance(get_epoch_int(xid[i]), get_epoch_int(xid[j]))
               + EpochDistance(get_epoch_int(xid[j]), get_epoch_int(xid[k]))
               < kEpochIntHalf
          /\ xct_cmp[<<i, j>>] < 0
          /\ xct_cmp[<<j, k>>] < 0)
           => xct_cmp[<<i, k>>] < 0

\* C19 witness: a chain a < b < c that crosses the wrap of the epoch counter:
\* a before b by ordinal in the last epoch, b before c by epoch.
C19_Witness_ChainAcrossWrap ==
  /\ xct_evaluated
  /\ get_epoch_int(xid["a"]) = kEpochIntOverflow - 1
  /\ get_epoch_int(xid["b"]) = kEpochIntOverflow - 1
  /\ get_epoch_int(xid["c"]) = 1
  /\ xct_cmp[<<"a", "b">>] < 0
  /\ xct_cmp[<<"b", "c">>] < 0
  /\ xct_cmp[<<"a", "c">>] < 0

\* C20: for valid stamps a and b, a.before(a) is false and a.before(b) is true
\* exactly when compare(a,b) < 0, whatever their status bits and epochs.
C20_BeforeAgreesWithCompare ==
  xct_evaluated
    => \A p \in StampPairs :
         /\ ~xct_bef[<<p[1], p[1]>>]
         /\ xct_bef[p] <=> xct_cmp[p] < 0

\* C20 witness: a and b carry different status bits, a's epoch is the last
\* one and b's the first one after the wrap, and a is before b.
C20_Witness_FlaggedAcrossWrap ==
  /\ xct_evaluated
  /\ U64And(xid["a"], kXctIdDeletedBit) = kXctIdDeletedBit
  /\ U64And(xid["a"], kXctIdBeingWrittenBit) = kXctIdBeingWrittenBit
  /\ U64And(xid["b"], kXctIdNextLayerBit) = kXctIdNextLayerBit
  /\ get_epoch_int(xid["a"]) = kEpochIntOverflow - 1
  /\ get_epoch_int(xid["b"]) = 1
  /\ xct_bef[<<"a", "b">>]
  /\ ~xct_bef[<<"b", "a">>]

(* ---------------------------------------------------------------------- *)
(* Every operation of a version stamp, on valid and invalid stamps         *)
(* ---------------------------------------------------------------------- *)
\* a call on the stamps n and m returns: an integer or a truth value
XctReturn(op, n, m, result, truth) ==
  /\ ~xct_call.aborted
  /\ xct_call' = [op |-> op, this |-> n, other |-> m, result |-> result,
                  truth |-> truth, aborted |-> FALSE]
  /\ UNCHANGED <<xid, xct_evaluated, xct_cmp, xct_bef, xvars, rwvars, scvars, appvars>>

\* ASSERT_ND fails in a call on the stamps n and m: the debug build aborts
\* here, the build without assertions goes on
XctAbort(op, n, m) ==
  /\ ~xct_call.aborted
  /\ xct_call' = [op |-> op, this |-> n, other |-> m, result |-> 0,
                  truth |-> FALSE, aborted |-> TRUE]
  /\ UNCHANGED <<xid, xct_evaluated, xct_cmp, xct_bef, xvars, rwvars, scvars, appvars>>

\* XctId::set_epoch, within its assertion
xct_set_epoch(n, epoch) ==
  /\ epoch < kEpochIntOverflow
  /\ XctStore(n, set_epoch(xid[n], epoch))

\* XctId::set_ordinal, within its assertion
xct_set_ordinal(n, ordinal) ==
  /\ ordinal <= kMaxXctOrdinal
  /\ XctStore(n, set_ordinal(xid[n], ordinal))

\* the ordinals increment_ordinal is called on: the first of an epoch and the
\* last one
IncrementFrom == {1, kMaxXctOrdinal}

\* XctId::increment_ordinal
xct_increment_ordinal(n) ==
  /\ get_ordinal(xid[n]) \in IncrementFrom
  /\ \/ XctStore(n, increment_ordinal(xid[n]))
     \/ ~increment_ordinal_asserts(xid[n]) /\ XctAbort("increment_ordinal", n, n)

\* XctId::clear_status_bits. The call record keeps whether a flag was set
xct_clear_status_bits(n) ==
  XctStoreAs(n, clear_status_bits(xid[n]),
             [op |-> "clear_status_bits", this |-> n, other |-> n, result |-> 0,
              truth |-> is_deleted(xid[n]) \/ is_moved(xid[n])
                          \/ is_being_written(xid[n]) \/ is_next_layer(xid[n]),
              aborted |-> FALSE])

\* XctId::store_max; before is called only with a valid other. The call
\* record keeps whether this was overwritten
xct_store_max(n, m) ==
  \/ XctStoreAs(n, store_max(xid[n], xid[m]),
                [op |-> "store_max", this |-> n, other |-> m, result |-> 0,
                 truth |-> XctId_is_valid(xid[m]) /\ before(xid[n], xid[m]),
                 aborted |-> FALSE])
  \/ /\ XctId_is_valid(xid[m])
     /\ ~before_asserts(xid[n], xid[m])
     /\ XctAbort("store_max", n, m)

\* XctId::before
xct_before(n, m) ==
  \/ XctReturn("before", n, m, 0, before(xid[n], xid[m]))
  \/ ~before_asserts(xid[n], xid[m]) /\ XctAbort("before", n, m)

\* XctId::compare_epoch_and_orginal
xct_compare_epoch_and_orginal(n, m) ==
  LET asserts ==
        /\ compare_epoch_and_orginal_asserts(xid[n], xid[m])
        /\ get_epoch_int(xid[n]) = get_epoch_int(xid[m])
             => get_ordinal(xid[n]) <= kMaxXctOrdinal
                  /\ get_ordinal(xid[m]) <= kMaxXctOrdinal
  IN \/ XctReturn("compare", n, m, compare_epoch_and_orginal(xid[n], xid[m]), FALSE)
     \/ ~asserts /\ XctAbort("compare", n, m)

\* XctId::operator==
xct_equals(n, m) == XctReturn("equals", n, m, 0, XctId_equals(xid[n], xid[m]))

\* a carries every status bit and goes through every operation, b is set
\* only, c stays the default-constructed invalid stamp
StampEpochs == {1, kEpochIntOverflow - 1}
StampCallPairs == {<<"a", "b">>, <<"b", "a">>, <<"a", "c">>, <<"c", "a">>, <<"a", "a">>}

NextStamp ==
  \/ \E n \in {"a", "b"}, e \in StampEpochs, o \in OrdinalSamples : xct_set(n, e, o)
  \/ \E e \in StampEpochs : xct_set_epoch("a", e)
  \/ \E o \in OrdinalSamples : xct_set_ordinal("a", o)
  \/ xct_increment_ordinal("a")
  \/ xct_set_being_written("a")
  \/ xct_set_write_complete("a")
  \/ xct_set_deleted("a")
  \/ xct_set_notdeleted("a")
  \/ xct_set_moved("a")
  \/ xct_set_next_layer("a")
  \/ xct_clear_status_bits("a")
  \/ \E m \in StampNames : xct_store_max("a", m)
  \/ \E p \in StampCallPairs : xct_before(p[1], p[2])
  \/ \E p \in StampCallPairs : xct_compare_epoch_and_orginal(p[1], p[2])
  \/ \E p \in StampCallPairs : xct_equals(p[1], p[2])

\* one stamp under every operation, next to a plain stamp and an invalid one
SpecStamp == Init /\ [][NextStamp]_vars

(* ---------------------------------------------------------------------- *)
(* Properties of the operations of one stamp                               *)
(* ---------------------------------------------------------------------- *)
\* the operands of the last call
CallThis == xid[xct_call.this]
CallOther == xid[xct_call.other]
\* the ordinals of both operands are within 24 bits
CallOrdinalsInRange ==
  get_ordinal(CallThis) <= kMaxXctOrdinal /\ get_ordinal(CallOther) <= kMaxXctOrdinal

\* C21 as claimed: before returns true for an invalid stamp against every
\* valid one, returns false for a valid stamp against an invalid one, and for
\* two valid stamps returns true exactly when compare is negative.
C21_BeforeAndInvalidStamps ==
  (xct_call.op = "before" /\ CallOrdinalsInRange) =>
    /\ ~xct_call.aborted
    /\ (~XctId_is_valid(CallThis) /\ XctId_is_valid(CallOther)) => xct_call.truth
    /\ (XctId_is_valid(CallThis) /\ ~XctId_is_valid(CallOther)) => ~xct_call.truth
    /\ (XctId_is_valid(CallThis) /\ XctId_is_valid(CallOther))
         => (xct_call.truth <=> compare_epoch_and_orginal(CallThis, CallOther) < 0)

\* C21, what holds: against a valid stamp before always returns, true exactly
\* when this is invalid or compare is negative; against an invalid stamp the
\* build without assertions returns false for a valid this.
C21_BeforeAgainstValidStamp ==
  (xct_call.op = "before" /\ CallOrdinalsInRange) =>
    /\ XctId_is_valid(CallOther) =>
         /\ ~xct_call.aborted
         /\ xct_call.truth <=>
              \/ ~XctId_is_valid(CallThis)
              \/ compare_epoch_and_orginal(CallThis, CallOther) < 0
    /\ (~xct_call.aborted /\ XctId_is_valid(CallThis) /\ ~XctId_is_valid(CallOther))
         => ~xct_call.truth

\* a step in which a.store_max(o) returns
StoreMaxReturns ==
  /\ xct_call'.op = "store_max"
  /\ ~xct_call'.aborted
  /\ xct_store_max("a", xct_call'.other)

\* C22: x.store_max(o) makes x the value o when o is valid and x.before(o),
\* and leaves x alone otherwise: an invalid o is ignored, an o equal to x
\* changes nothing, a second store_max of the same o changes nothing more,
\* and for valid operands the result is one of the two with compare >= 0
\* against both.
C22_StoreMaxKeepsMaximum ==
  [][StoreMaxReturns =>
       LET x == xid["a"]
           o == xid[xct_call'.other]
           r == xid'["a"]
       IN /\ r = IF XctId_is_valid(o) /\ before(x, o) THEN o ELSE x
          /\ ~XctId_is_valid(o) => r = x
          /\ XctId_equals(o, x) => r = x
          /\ store_max(r, xid'[xct_call'.other]) = r
          /\ ( /\ XctId_is_valid(x) /\ XctId_is_valid(o)
               /\ get_ordinal(x) <= kMaxXctOrdinal
               /\ get_ordinal(o) <= kMaxXctOrdinal )
               => /\ r \in {x, o}
                  /\ compare_epoch_and_orginal(r, x) >= 0
                  /\ compare_epoch_and_orginal(r, o) >= 0]_vars

\* C22 witness: store_max has overwritten a with the later stamp b, whose
\* epoch 1 is past the wrap of the epoch counter.
C22_Witness_StoreMaxTookLater ==
  /\ xct_call.op = "store_max" /\ xct_call.other = "b" /\ xct_call.truth
  /\ xid["a"] = xid["b"]
  /\ get_epoch_int(xid["a"]) = 1

\* C23 as claimed: in every state reachable by the operations of a stamp, the
\* flags next_layer and deleted are never both set.
C23_NextLayerExcludesDeleted ==
  \A n \in StampNames : ~(is_next_layer(xid[n]) /\ is_deleted(xid[n]))

\* C24: set_next_layer on a stamp with any flags leaves next_layer set and
\* deleted clear, and leaves moved, being_written, the epoch and the ordinal
\* as they were.
C24_SetNextLayerClearsDeleted ==
  [][xct_set_next_layer("a") =>
       LET x == xid["a"]
           r == xid'["a"]
       IN /\ is_next_layer(r)
          /\ ~is_deleted(r)
          /\ is_moved(r) <=> is_moved(x)
          /\ is_being_written(r) <=> is_being_written(x)
          /\ get_epoch_int(r) = get_epoch_int(x)
          /\ get_ordinal(r) = get_ordinal(x)]_vars

\* C24 witness: a stamp that carries next_layer next to moved and
\* being_written, with deleted clear, at the last epoch before the wrap and
\* the highest ordinal.
C24_Witness_NextLayerAmongFlags ==
  /\ is_next_layer(xid["a"]) /\ ~is_deleted(xid["a"])
  /\ is_moved(xid["a"]) /\ is_being_written(xid["a"])
  /\ get_epoch_int(xid["a"]) = kEpochIntOverflow - 1
  /\ get_ordinal(xid["a"]) = kMaxXctOrdinal

\* the operations that replace the whole word of a, or mask its flags:
\* set, clear_status_bits and store_max
OverwritesStamp ==
  \/ \E e \in StampEpochs, o \in OrdinalSamples : xct_set("a", e, o)
  \/ xct_clear_status_bits("a")
  \/ \E m \in StampNames : xct_store_max("a", m)

C26_MovedMonotone ==
  [][is_moved(xid["a"]) => is_moved(xid'["a"])]_vars

\* C26 amended: once moved is set, set_epoch, set_ordinal, increment_ordinal
\* and every flag setter keep it; only the operations that replace the word
\* or mask the flags (set, store_max taking the other stamp,
\* clear_status_bits) turn it off.
C26_MovedKeptByFieldSetters ==
  [][(is_moved(xid["a"]) /\ ~is_moved(xid'["a"])) => OverwritesStamp]_vars

\* C26 witness: a moved stamp on which store_max has acted last, without
\* taking the other stamp, and which still is moved.
C26_Witness_MovedAfterStoreMax ==
  /\ xct_call.op = "store_max" /\ ~xct_call.truth /\ xct_call.other = "b"
  /\ XctId_is_valid(xid["b"])
  /\ is_moved(xid["a"])

\* C27 as claimed: the ordinal of every stamp stays at most 2^24 - 1, the top
\* 8 bits of the 32-bit ordinal field stay zero, and no increment_ordinal
\* aborts or changes the epoch field.
C27_OrdinalWithin24Bits ==
  /\ \A n \in StampNames :
       get_ordinal(xid[n]) <= kMaxXctOrdinal /\ xid[n].w1 \div 256 = 0
  /\ ~(xct_call.op = "increment_ordinal" /\ xct_call.aborted)

\* C27, what holds: increment_ordinal never changes the epoch or the flags,
\* also when it takes the ordinal from 2^24 - 1 to 2^24.
C27_IncrementKeepsEpochField ==
  [][(xct_increment_ordinal("a") /\ ~xct_call'.aborted) =>
       /\ xid'["a"].w3 = xid["a"].w3
       /\ xid'["a"].w2 = xid["a"].w2
       /\ get_ordinal(xid'["a"]) = get_ordinal(xid["a"]) + 1]_vars

\* a step in which a.clear_status_bits() returns
ClearStatusBitsReturns ==
  /\ xct_call'.op = "clear_status_bits"
  /\ xct_clear_status_bits("a")

\* C28: clear_status_bits leaves deleted, moved, being_written and next_layer
\* clear and every bit of the epoch and of the ordinal as it was; a second
\* clear_status_bits changes nothing.
C28_ClearStatusBitsKeepsOrder ==
  [][ClearStatusBitsReturns =>
       LET x == xid["a"]
           r == xid'["a"]
       IN /\ ~is_deleted(r) /\ ~is_moved(r) /\ ~is_being_written(r) /\ ~is_next_layer(r)
          /\ r.w3 \div 4096 = 0
          /\ r.w3 % 4096 = x.w3 % 4096
          /\ r.w2 = x.w2 /\ r.w1 = x.w1 /\ r.w0 = x.w0
          /\ get_epoch_int(r) = get_epoch_int(x)
          /\ get_ordinal(r) = get_ordinal(x)
          /\ clear_status_bits(r) = r]_vars

\* C28 witness: clear_status_bits has cleared flags of a stamp of the last
\* epoch before the wrap with the highest ordinal.
C28_Witness_FlagsCleared ==
  /\ xct_call.op = "clear_status_bits" /\ xct_call.truth
  /\ xid["a"] = XctId_set(kEpochIntOverflow - 1, kMaxXctOrdinal)

\* the results of compare, before and operator== are what the claim says
CallsIgnoreStatusBits ==
  /\ ( /\ xct_call.op = "compare" /\ CallOrdinalsInRange
       /\ XctId_is_valid(CallThis) /\ XctId_is_valid(CallOther) )
       => /\ ~xct_call.aborted
          /\ xct_call.result =
               compare_epoch_and_orginal(clear_status_bits(CallThis),
                                         clear_status_bits(CallOther))
          /\ xct_call.result = 0 <=>
               /\ get_epoch_int(CallThis) = get_epoch_int(CallOther)
               /\ get_ordinal(CallThis) = get_ordinal(CallOther)
  /\ (xct_call.op = "before" /\ CallOrdinalsInRange /\ XctId_is_valid(CallOther))
       => xct_call.truth <=> before(clear_status_bits(CallThis),
                                    clear_status_bits(CallOther))
  /\ xct_call.op = "equals"
       => xct_call.truth <=>
            /\ CallThis.w3 = CallOther.w3 /\ CallThis.w2 = CallOther.w2
            /\ CallThis.w1 = CallOther.w1 /\ CallThis.w0 = CallOther.w0

\* store_max takes the other stamp or not whatever the status bits are
StoreMaxIgnoresStatusBits ==
  StoreMaxReturns =>
    LET x == xid["a"]
        o == xid[xct_call'.other]
    IN (xid'["a"] # x) <=>
         (store_max(clear_status_bits(x), clear_status_bits(o)) # clear_status_bits(x))

\* C29: compare, before and store_max depend on the epoch and the ordinal
\* only: for valid stamps compare is 0 exactly when epoch and ordinal are the
\* same, whatever the status bits, while operator== holds exactly when all 64
\* bits are equal.
C29_OrderIgnoresStatusBits ==
  []CallsIgnoreStatusBits /\ [][StoreMaxIgnoresStatusBits]_vars

\* C29 witness: compare has returned 0 for two valid stamps that are not
\* equal as words.
C29_Witness_SamePositionOtherWord ==
  /\ xct_call.op = "compare" /\ xct_call.result = 0 /\ ~xct_call.aborted
  /\ xct_call.this = "a" /\ xct_call.other = "b"
  /\ XctId_is_valid(xid["a"]) /\ XctId_is_valid(xid["b"])
  /\ ~XctId_equals(xid["a"], xid["b"])

(* ---------------------------------------------------------------------- *)
(* LockableXctId and RwLockableXctId, the control words                    *)
(* ---------------------------------------------------------------------- *)
\* The exclusive control word is the McsLock lock_data followed by the stamp
\* a; the reader-writer control word is the McsRwLock (tail_, next_writer_,
\* readers_count_) followed by the stamp b.

\* a reset that leaves the guest id in the lock word
McsLock_reset_GuestId == kMcsGuestId
\* McsLock::reset(): data_ = 0
McsLock_reset == U32(0, 0)
\* McsLock::reset(tail_waiter, tail_waiter_block)
McsLock_reset_to(tail_waiter, tail_waiter_block) == to_int(tail_waiter, tail_waiter_block)
\* McsRwLock::reset
McsRwLock_reset ==
  [tail_ |-> U32(0, 0), readers_count_ |-> 0, next_writer_ |-> kNextWriterNone]

\* what an operation on the lock word alone leaves of the lock's threads
x_rest == <<mcs_blocks, mcs_waiting, mcs_block_current, x_pc, x_block, x_pred,
            guest_pc, x_order>>
rw_rest == <<rw_blocks, rw_block_current, rw_pc, rw_block, rw_pred, rw_w, rw_order>>

\* readers counted on the word of a page
MaxPageReaders == 2

\* McsLock::reset(tail_waiter, tail_waiter_block), as initial_lock uses it
page_McsLock_reset_to(tail_waiter, tail_waiter_block) ==
  /\ lock_data' = McsLock_reset_to(tail_waiter, tail_waiter_block)
  /\ xct_call' = NoXctCall
  /\ UNCHANGED <<x_rest, rwvars, scvars, appvars, xid, xct_evaluated, xct_cmp, xct_bef>>

\* McsLock::reset_guest_id_release
page_reset_guest_id_release ==
  /\ lock_data' = kMcsGuestId
  /\ xct_call' = NoXctCall
  /\ UNCHANGED <<x_rest, rwvars, scvars, appvars, xid, xct_evaluated, xct_cmp, xct_bef>>

\* McsRwLock::increment_readers_count
page_increment_readers_count ==
  /\ readers_count_ < MaxPageReaders
  /\ readers_count_' = increment_readers_count(readers_count_)
  /\ xct_call' = NoXctCall
  /\ UNCHANGED <<tail_, next_writer_, rw_rest, xvars, scvars, appvars,
                 xid, xct_evaluated, xct_cmp, xct_bef>>

\* McsRwLock::decrement_readers_count
page_decrement_readers_count ==
  /\ readers_count_ > 0
  /\ readers_count_' = decrement_readers_count(readers_count_)
  /\ xct_call' = NoXctCall
  /\ UNCHANGED <<tail_, next_writer_, rw_rest, xvars, scvars, appvars,
                 xid, xct_evaluated, xct_cmp, xct_bef>>

\* LockableXctId::reset: lock_.reset(); xct_id_.data_ = 0. The call record
\* keeps whether the lock half and the stamp both held something
LockableXctId_reset ==
  /\ lock_data' = McsLock_reset
  /\ xid' = [xid EXCEPT !["a"] = XctId_zero]
  /\ xct_call' = [op |-> "LockableXctId::reset", this |-> "a", other |-> "a",
                  result |-> 0,
                  truth |-> lock_data # U32(0, 0) /\ xid["a"] # XctId_zero,
                  aborted |-> FALSE]
  /\ UNCHANGED <<x_rest, rwvars, scvars, appvars, xct_evaluated, xct_cmp, xct_bef>>

\* RwLockableXctId::reset: lock_.reset(); xct_id_.data_ = 0
RwLockableXctId_reset ==
  /\ tail_' = McsRwLock_reset.tail_
  /\ readers_count_' = McsRwLock_reset.readers_count_
  /\ next_writer_' = McsRwLock_reset.next_writer_
  /\ xid' = [xid EXCEPT !["b"] = XctId_zero]
  /\ xct_call' = [op |-> "RwLockableXctId::reset", this |-> "b", other |-> "b",
                  result |-> 0,
                  truth |-> readers_count_ # 0 /\ xid["b"] # XctId_zero,
                  aborted |-> FALSE]
  /\ UNCHANGED <<rw_rest, xvars, scvars, appvars, xct_evaluated, xct_cmp, xct_bef>>

NextPage ==
  \/ \E t \in {0, 1} : page_McsLock_reset_to(t, 1)
  \/ page_reset_guest_id_release
  \/ page_increment_readers_count
  \/ page_decrement_readers_count
  \/ \E n \in {"a", "b"}, e \in StampEpochs, o \in OrdinalSamples : xct_set(n, e, o)
  \/ xct_set_deleted("a")
  \/ xct_set_moved("a")
  \/ xct_set_next_layer("b")
  \/ LockableXctId_reset
  \/ RwLockableXctId_reset

\* control words whose halves are written and which are then reset, as a
\* page that is initialized again
SpecPage == Init /\ [][NextPage]_vars

InitRwZeroed ==
  /\ tail_ = U32(0, 0)
  /\ readers_count_ = 0
  /\ next_writer_ = 0
  /\ rw_blocks = [t \in RwThreads |-> [b \in RwBlocks |-> McsRwBlock_zero]]
  /\ rw_block_current = [t \in RwThreads |-> 0]
  /\ rw_pc = [t \in RwThreads |-> "idle"]
  /\ rw_block = [t \in RwThreads |-> 0]
  /\ rw_pred = [t \in RwThreads |-> U32(0, 0)]
  /\ rw_w = [t \in RwThreads |-> kNextWriterNone]
  /\ rw_order = << >>

InitZeroed == InitMcs /\ InitRwZeroed /\ InitScopes /\ InitXct /\ InitApp

\* readers and writers on a reader-writer lock that was born as zero memory;
\* every thread acquires once
NextZeroed == RwNext(RwPoolThreads)
SpecZeroed == InitZeroed /\ [][NextZeroed]_vars

\* nobody is inside the reader-writer lock
RwNobodyInside == \A t \in RwThreads : rw_pc[t] = "idle"

\* C31 as claimed: a control word of all-zero memory is an idle control word
\* of either variant: not locked, stamp invalid, readers_count 0 and no next
\* writer; and acquires on it behave as on a reset lock, so a writer never
\* holds together with another holder.
C31_ZeroedWordIsIdle ==
  /\ (RwNobodyInside /\ tail_ = U32(0, 0)) =>
       /\ ~rw_is_locked(tail_)
       /\ readers_count_ = 0
       /\ ~has_next_writer(next_writer_)
       /\ ~XctId_is_valid(xid["b"])
  /\ lock_data = U32(0, 0) => (~is_locked(lock_data) /\ ~XctId_is_valid(xid["a"]))
  /\ \A w \in RwThreads : RwWriterHolds(w) =>
       \A t \in RwThreads \ {w} : ~RwWriterHolds(t) /\ ~RwReaderHolds(t)

\* C31, the behaviour alone: on the zeroed lock a writer never holds together
\* with another holder
C31_ZeroedLockExcludes ==
  \A w \in RwThreads : RwWriterHolds(w) =>
    \A t \in RwThreads \ {w} : ~RwWriterHolds(t) /\ ~RwReaderHolds(t)

\* ---------------------------------------------------------------------------
\* is_locked() of the reader-writer control word while the lock is held.

RwSomeoneHolds == \E t \in RwThreads : RwReaderHolds(t) \/ RwWriterHolds(t)

\* C35 as claimed: in every reachable state in which some reader or writer
\* holds the reader-writer lock, is_locked() (tail block # 0) is true, also
\* after a tail reader has released while earlier readers still hold.
C35_HeldImpliesIsLocked == RwSomeoneHolds => rw_is_locked(tail_)

\* C35, what the control word does show: a holding writer keeps its node in
\* the queue, so is_locked() is true; a holding reader is visible in
\* is_locked() or in readers_count.
C35_HeldShowsInWord ==
  /\ (\E t \in RwThreads : RwWriterHolds(t)) => rw_is_locked(tail_)
  /\ (\E t \in RwThreads : RwReaderHolds(t)) =>
       (rw_is_locked(tail_) \/ readers_count_ > 0)

\* ---------------------------------------------------------------------------
\* The assertions of McsRwBlock::unblock and of the successor setters.

\* the calls of unblock(): on the caller's own node, ...
RwUnblocksSelf(t) == rw_pc[t] \in {"ra_unblock_self", "ra_join_unblock", "wa_unblock_self"}
\* ... on the successor linked behind the caller's node, ...
RwUnblocksSuccessor(t) == rw_pc[t] \in {"ra_succ_unblock", "wr_unblock"}
\* ... and on the node of the writer taken out of next_writer
RwUnblocksNextWriter(t) == rw_pc[t] = "rr_wake"

\* the node on which thread t is about to call unblock()
RwUnblockTarget(t) ==
  IF RwUnblocksSelf(t) THEN RwMy(t)
  ELSE IF RwUnblocksSuccessor(t)
    THEN rw_blocks[RwMy(t).successor_thread_id_][RwMy(t).successor_block_index_]
  ELSE rw_blocks[rw_w[t]][rw_block_current[rw_w[t]]]

\* McsRwBlock::unblock, ASSERT_ND(state_ & kStateBlockedFlag) on entry
unblock_asserts(blk) == is_blocked(blk)

\* C36: unblock() is invoked only on a node whose blocked flag is set: the
\* assertion on entry of unblock never fails, and no two threads are about to
\* unblock the same node, so each waiting node is granted exactly once.
C36_UnblockOnlyBlocked ==
  /\ \A t \in RwThreads :
       (RwUnblocksSelf(t) \/ RwUnblocksSuccessor(t) \/ RwUnblocksNextWriter(t)) =>
         unblock_asserts(RwUnblockTarget(t))
  /\ \A t, u \in RwThreads :
       ( /\ t # u
         /\ RwUnblocksSuccessor(t) \/ RwUnblocksNextWriter(t)
         /\ RwUnblocksSelf(u) \/ RwUnblocksSuccessor(u) \/ RwUnblocksNextWriter(u) ) =>
       LET Node(x) == IF RwUnblocksSelf(x) THEN <<x, rw_block[x]>>
                      ELSE IF RwUnblocksSuccessor(x)
                        THEN <<RwMy(x).successor_thread_id_, RwMy(x).successor_block_index_>>
                      ELSE <<rw_w[x], rw_block_current[rw_w[x]]>>
       IN Node(t) # Node(u)

\* a releasing reader, itself granted by an earlier unblock(), is about to
\* wake the announced writer, whose node is still blocked
C36_Witness_WakeBlockedWriter ==
  \E t \in RwThreads :
    /\ RwUnblocksNextWriter(t)
    /\ ~is_blocked(RwMy(t))
    /\ ~is_reader(RwUnblockTarget(t))
    /\ is_blocked(RwUnblockTarget(t))

\* McsRwBlock::set_successor_class_writer, its ASSERT_ND
set_successor_class_writer_asserts(blk) == blk.successor_class_ = kSuccessorClassNone

\* McsRwBlock::set_successor_next_only, its two ASSERT_NDs
set_successor_next_only_asserts(blk) ==
  blk.successor_thread_id_ = 0 /\ blk.successor_block_index_ = 0

\* thread t has read a predecessor out of the tail and has not linked yet
RwLinking(t) ==
  rw_pc[t] \in {"ra_cas", "ra_link", "ra_join_inc", "ra_join_link", "wa_set_class", "wa_link"}

\* C37: each node receives at most one successor per acquisition: whenever
\* set_successor_class_writer runs the successor class of the node is None,
\* whenever set_successor_next_only runs its successor thread id and block
\* index are 0, and two arriving threads never link behind the same node.
C37_OneSuccessorPerNode ==
  /\ \A t \in RwThreads :
       rw_pc[t] = "wa_set_class" => set_successor_class_writer_asserts(RwPred(t))
  /\ \A t \in RwThreads :
       rw_pc[t] \in {"ra_link", "ra_join_link", "wa_link"} =>
         set_successor_next_only_asserts(RwPred(t))
  /\ \A t, u \in RwThreads :
       (t # u /\ RwLinking(t) /\ RwLinking(u)) => rw_pred[t] # rw_pred[u]

\* a writer is about to designate itself behind one node while a reader is
\* about to link itself behind another
C37_Witness_WriterAndReaderLink ==
  \E t, u \in RwThreads :
    /\ rw_pc[t] = "wa_set_class"
    /\ rw_pc[u] \in {"ra_link", "ra_join_link"}
    /\ set_successor_class_writer_asserts(RwPred(t))
    /\ set_successor_next_only_asserts(RwPred(u))

\* ---------------------------------------------------------------------------
\* A reader that arrives behind an already granted reader.

\* the steps a reader takes on its own once it stands behind a reader
RwJoinStep(t) ==
  \/ reader_acquire_cas(t) \/ reader_acquire_join_inc(t)
  \/ reader_acquire_join_link(t) \/ reader_acquire_join_unblock(t)

\* only readers that stand behind a reader are sure to take steps; nobody is
\* sure to release
FairSpecJoin == SpecRwPool /\ \A t \in RwPoolThreads : WF_vars(RwJoinStep(t))

\* reader t has swapped itself into the tail directly behind a reader whose
\* blocked flag is already cleared, and has not tried the CAS yet
RwBehindGrantedReader(t) ==
  rw_pc[t] = "ra_cas" /\ is_reader(RwPred(t)) /\ ~is_blocked(RwPred(t))

\* reader t is linked behind the node of reader p as its reader successor (a
\* node keeps the link of an acquisition that is over until it is initialized
\* again, so t is also the next one that swapped the tail after p)
RwChainedBehind(t, p) ==
  /\ rw_pc[t] = "ra_spin"
  /\ rw_pc[p] # "idle"
  /\ \E i \in 1..(Len(rw_order) - 1) : rw_order[i] = p /\ rw_order[i + 1] = t
  /\ has_reader_successor(RwMy(p))
  /\ RwMy(p).successor_thread_id_ = t
  /\ RwMy(p).successor_block_index_ = rw_block[t]

\* the CAS of a reader behind a granted reader fails and changes no node; the
\* reader goes on to count itself and clears its own blocked flag
C33_CasFailsAndReaderJoins ==
  [][\A t \in RwThreads :
       /\ (RwBehindGrantedReader(t) /\ rw_pc'[t] # rw_pc[t]) =>
            (rw_pc'[t] = "ra_join_inc" /\ rw_blocks' = rw_blocks)
       /\ (rw_pc[t] = "ra_join_inc" /\ rw_pc'[t] # rw_pc[t]) =>
            readers_count_' = (readers_count_ + 1) % 65536
       /\ (rw_pc[t] = "ra_join_unblock" /\ rw_pc'[t] # rw_pc[t]) =>
            ~is_blocked(rw_blocks'[t][rw_block[t]])]_vars

\* no reader is blocked in the chain behind a reader that has finished its
\* acquire (and so will not grant it any more)
C33_NoReaderStuckBehindActiveReader ==
  \A t, p \in RwThreads :
    (t # p /\ RwChainedBehind(t, p) /\ is_blocked(RwMy(t))) =>
      ~(RwReaderHolds(p) \/ RwReaderReleasing(p))

\* C33: a reader that enqueues directly behind an already granted reader fails
\* the CAS of the predecessor's (state, successor_class), increments
\* readers_count and unblocks itself; it is granted by its own steps, without
\* any release, and no reader stays blocked behind an active reader that will
\* not wake it.
C33_ReaderRaceFix ==
  /\ C33_CasFailsAndReaderJoins
  /\ []C33_NoReaderStuckBehindActiveReader
  /\ \A t \in RwPoolThreads :
       RwBehindGrantedReader(t) ~> (rw_pc[t] = "ra_check_succ" /\ ~is_blocked(RwMy(t)))

\* a reader stands behind a reader that holds the lock and has not tried the
\* CAS yet
C33_Witness_BehindHoldingReader ==
  \E t, p \in RwPoolThreads :
    /\ RwBehindGrantedReader(t)
    /\ RwPredThread(t) = p /\ RwReaderHolds(p)

\* ---------------------------------------------------------------------------
\* Encoding of the exclusive lock word.

\* thread::ThreadId is a uint16_t; samples over its whole range
ThreadIdSamples == {0, 1, 2, 127, 255, 256, 257, 32767, 32768, 65534, 65535}
\* McsBlockIndex is a uint32_t; to_int asserts that it fits 16 bits
BlockIndexSamples == {1, 2, 127, 255, 256, 257, 32767, 32768, 65534, 65535, 65536, 65537}

\* McsLock::to_int, its ASSERT_ND(tail_waiter_block <= 0xFFFFU)
to_int_asserts(tail_waiter_block) == tail_waiter_block <= 65535

\* a queued acquirer installs its node in the lock word, as initial_lock and
\* the tail swap of acquire_lock do: data_ = to_int(tail_waiter, block). A
\* failing assertion ends a debug build and is compiled out of a release build.
word_install(tail_waiter, tail_waiter_block) ==
  /\ ~word_call.aborted
  /\ \/ /\ lock_data' = McsLock_reset_to(tail_waiter, tail_waiter_block)
        /\ word_call' = [called |-> TRUE, tail_waiter |-> tail_waiter,
                         tail_waiter_block |-> tail_waiter_block, aborted |-> FALSE]
     \/ /\ ~to_int_asserts(tail_waiter_block)
        /\ lock_data' = lock_data
        /\ word_call' = [called |-> TRUE, tail_waiter |-> tail_waiter,
                         tail_waiter_block |-> tail_waiter_block, aborted |-> TRUE]
  /\ UNCHANGED <<x_rest, rwvars, scvars, idvars, app_but_word>>

\* McsLock::reset, between two installs
word_reset ==
  /\ ~word_call.aborted
  /\ word_call.called
  /\ lock_data' = McsLock_reset
  /\ word_call' = NoWordCall
  /\ UNCHANGED <<x_rest, rwvars, scvars, idvars, app_but_word>>

NextWord ==
  \/ \E t \in ThreadIdSamples, b \in BlockIndexSamples : word_install(t, b)
  \/ word_reset

\* lock words written by to_int for thread ids and block indexes of the whole
\* range of their types
SpecWord == Init /\ [][NextWord]_vars

\* the last call of to_int passed its assertion and returned
WordInstalled == word_call.called /\ ~word_call.aborted
                   /\ to_int_asserts(word_call.tail_waiter_block)

\* the word that was installed decodes back to the arguments
WordDecodes ==
  /\ get_tail_waiter(lock_data) = word_call.tail_waiter
  /\ get_tail_waiter_block(lock_data) = word_call.tail_waiter_block
  /\ is_locked(lock_data)

PublishEpochs == {1, 2}
PublishOrdinals == {1, 2}

\* the stamp of the record is stored by a publisher
PubStore(t, x, label) ==
  /\ xid' = [xid EXCEPT !["a"] = x]
  /\ pub_pc' = [pub_pc EXCEPT ![t] = label]
  /\ xct_evaluated' = FALSE
  /\ xct_cmp' = [p \in StampPairs |-> 0]
  /\ xct_bef' = [p \in StampPairs |-> FALSE]
  /\ xct_call' = NoXctCall
  /\ UNCHANGED <<xvars, rwvars, scvars, app_but_pub>>

\* (a) take the exclusive lock
pub_acquire_lock(t) == pub_pc[t] = "idle" /\ acquire_lock_alloc(t)

\* (b) set being_written, (c) mutate the payload
pub_set_being_written(t) ==
  /\ XHolds(t)
  /\ pub_pc[t] = "idle"
  /\ PubStore(t, set_being_written(xid["a"]), "writing")

\* (d) install the new (epoch, ordinal) with one 64-bit store
pub_install(t, epoch_int, ordinal) ==
  /\ XHolds(t)
  /\ pub_pc[t] = "writing"
  /\ PubStore(t, XctId_set(epoch_int, ordinal), "installed")

\* (e) release the lock; a holder that publishes nothing releases as well
pub_release_lock(t) == pub_pc[t] \in {"idle", "installed"} /\ release_lock_cas(t)

\* the publisher has left release_lock
pub_return(t) ==
  /\ x_pc[t] = "idle"
  /\ pub_pc[t] = "installed"
  /\ pub_pc' = [pub_pc EXCEPT ![t] = "idle"]
  /\ UNCHANGED <<xvars, rwvars, scvars, idvars, app_but_pub>>

NextPublish ==
  \/ \E t \in McsThreads : pub_acquire_lock(t)
  \/ \E t \in McsThreads : acquire_lock_guest_spin(t)
  \/ \E t \in McsThreads : acquire_lock_swap(t)
  \/ \E t \in McsThreads : acquire_lock_link(t)
  \/ \E t \in McsThreads : acquire_lock_spin(t)
  \/ \E t \in McsThreads : pub_set_being_written(t)
  \/ \E t \in McsThreads, e \in PublishEpochs, o \in PublishOrdinals : pub_install(t, e, o)
  \/ \E t \in McsThreads : pub_release_lock(t)
  \/ \E t \in McsThreads : release_lock_wait(t)
  \/ \E t \in McsThreads : release_lock_signal(t)
  \/ \E t \in McsThreads : pub_return(t)
  \/ \E t \in McsThreads : release_block(t)

\* threads that publish the record under its exclusive lock, in any interleaving
SpecPublish == Init /\ [][NextPublish]_vars

\* LockableXctId::is_keylocked and is_being_written of the record
record_is_keylocked == is_locked(lock_data)
record_is_being_written == is_being_written(xid["a"])

\* being_written is on only while a thread that holds the lock is between
\* setting it and installing the new stamp, and never while the word is
\* unlocked
C34_BeingWrittenOnlyUnderLock ==
  /\ record_is_being_written =>
       (\E t \in McsThreads : XHolds(t) /\ pub_pc[t] = "writing")
  /\ ~record_is_keylocked => ~record_is_being_written

\* the stamp changes only in a step of a thread that holds the lock, and
\* being_written is cleared only by the store of a new (epoch, ordinal)
C34_StampChangesOnlyUnderLock ==
  [][xid'["a"] # xid["a"] =>
       /\ record_is_keylocked /\ record_is_keylocked'
       /\ \E t \in McsThreads : XHolds(t) /\ XHolds(t)' /\ pub_pc'[t] # pub_pc[t]
       /\ (record_is_being_written /\ ~record_is_being_written') =>
            \E e \in PublishEpochs, o \in PublishOrdinals : xid'["a"] = XctId_set(e, o)]_vars

RepsPerTx == 2
\* the run ends before a key counter passes this value
MaxKeyCounter == 3
\* kMaxUnexpectedErrors (ycsb.hpp): the unexpected errors a task survives
kMaxUnexpectedErrors == 2

\* the error codes the storage and the transaction manager hand to the task;
\* kErrorCodeStrKeyNotFound stands for every code the loop has no branch for
YcsbOverflows ==
  {"kErrorCodeXctPageVersionSetOverflow", "kErrorCodeXctPointerSetOverflow",
   "kErrorCodeXctReadSetOverflow", "kErrorCodeXctWriteSetOverflow"}
YcsbErrors ==
  {"kErrorCodeXctRaceAbort", "kErrorCodeStrKeyAlreadyExists", "kErrorCodeStrKeyNotFound"}
    \cup YcsbOverflows

\* build_key(high, low)
build_key(high, low) == <<high, low>>

\* the branches of the abort-retry loop that retry without counting the error
\* as unexpected, with random_inserts_ not asked
ycsb_retries_KeyExistsAlways(ret, random_inserts) ==
  \/ ret = "kErrorCodeXctRaceAbort"
  \/ ret \in YcsbOverflows
  \/ ret = "kErrorCodeStrKeyAlreadyExists"

\* the branches of the abort-retry loop that retry without counting the error
\* as unexpected
ycsb_retries(ret, random_inserts) ==
  \/ ret = "kErrorCodeXctRaceAbort"
  \/ ret \in YcsbOverflows
  \/ random_inserts /\ ret = "kErrorCodeStrKeyAlreadyExists"

YcsbStep(next) ==
  /\ ycsb' = next
  /\ UNCHANGED <<xvars, rwvars, scvars, idvars, app_but_ycsb>>

\* the driver starts the task with its inputs
ycsb_run(random_inserts) ==
  /\ ycsb.pc = "idle"
  /\ YcsbStep([ycsb EXCEPT !.pc = "select", !.random_inserts_ = random_inserts])

\* the driver requests the stop
ycsb_request_stop ==
  /\ ycsb.pc \notin {"idle", "returned"}
  /\ ~ycsb.stop
  /\ YcsbStep([ycsb EXCEPT !.stop = TRUE])

\* while (!is_stop_requested()): pick the transaction type; after the loop
\* return kRetOk
ycsb_select(is_insert) ==
  /\ ycsb.pc = "select"
  /\ IF ycsb.stop
       THEN YcsbStep([ycsb EXCEPT !.pc = "returned", !.result = "kErrorCodeOk"])
       ELSE YcsbStep([ycsb EXCEPT !.pc = "retry", !.is_insert = is_insert])

\* abort-retry loop: while (!is_stop_requested()) begin_xct; begin_xct fails
\* when the thread is already running a transaction, and WRAP_ERROR_CODE
\* returns the error
ycsb_begin_xct ==
  /\ ycsb.pc = "retry"
  /\ IF ycsb.stop
       THEN YcsbStep([ycsb EXCEPT !.pc = "select"])
       ELSE IF ycsb.running
         THEN YcsbStep([ycsb EXCEPT !.pc = "returned",
                                    !.result = "kErrorCodeXctAlreadyRunning"])
         ELSE YcsbStep([ycsb EXCEPT !.pc = IF ycsb.is_insert THEN "insert" ELSE "access",
                                    !.running = TRUE, !.reps = 0,
                                    !.ret = "kErrorCodeOk",
                                    !.counter_at_begin = ycsb.key_counter_])

\* one round of the insert loop: do_insert(build_key(worker_id_, *low)) and,
\* when it returned kErrorCodeOk, the increment of *low
\* (the table also holds the keys of the load and of the other workers, so
\* insert_record may report an existing key at any time)
ycsb_insert(high, ret) ==
  /\ ycsb.pc = "insert"
  /\ high = ycsb.worker_id_ \/ ycsb.random_inserts_
  /\ ycsb.key_counter_[high] < MaxKeyCounter
  /\ LET low == ycsb.key_counter_[high]
         key == build_key(ycsb.worker_id_, low)
         exists == key \in ycsb.table \cup ycsb.writes IN
       /\ exists => ret # "kErrorCodeOk"
       /\ IF ret = "kErrorCodeOk"
            THEN YcsbStep([ycsb EXCEPT
                   !.ret = ret,
                   !.writes = ycsb.writes \cup {key},
                   !.key_counter_ = [ycsb.key_counter_ EXCEPT ![high] = low + 1],
                   !.reps = ycsb.reps + 1,
                   !.pc = IF ycsb.reps + 1 < RepsPerTx THEN "insert" ELSE "commit"])
            ELSE YcsbStep([ycsb EXCEPT !.ret = ret, !.pc = "commit"])

\* the read, update, scan and read-modify-write loops: the first error ends them
ycsb_access(ret) ==
  /\ ycsb.pc = "access"
  /\ ret # "kErrorCodeStrKeyAlreadyExists"
  /\ YcsbStep([ycsb EXCEPT !.ret = ret, !.pc = "commit"])

\* done with data access: precommit_xct, or abort_xct after an error; both
\* leave the thread without a running transaction (the ASSERT_NDs around them)
ycsb_commit(precommit) ==
  /\ ycsb.pc = "commit"
  /\ IF ycsb.ret = "kErrorCodeOk"
       THEN /\ precommit \in {"kErrorCodeOk", "kErrorCodeXctRaceAbort"} \cup YcsbOverflows
            /\ IF precommit = "kErrorCodeOk"
                 THEN YcsbStep([ycsb EXCEPT !.running = FALSE,
                                            !.table = ycsb.table \cup ycsb.writes,
                                            !.writes = {}, !.pc = "select"])
                 ELSE YcsbStep([ycsb EXCEPT !.running = FALSE, !.writes = {},
                                            !.ret = precommit, !.pc = "failed"])
       ELSE /\ precommit = "kErrorCodeOk"
            /\ YcsbStep([ycsb EXCEPT !.running = FALSE, !.writes = {}, !.pc = "failed"])

\* the branches on ret after a failed attempt
ycsb_failed ==
  /\ ycsb.pc = "failed"
  /\ IF ycsb_retries(ycsb.ret, ycsb.random_inserts_)
       THEN YcsbStep([ycsb EXCEPT !.pc = "retry"])
       ELSE LET n == ycsb.unexpected_aborts_ + 1 IN
            IF n > kMaxUnexpectedErrors
              THEN YcsbStep([ycsb EXCEPT !.unexpected_aborts_ = n, !.pc = "returned",
                                         !.result = ycsb.ret])
              ELSE YcsbStep([ycsb EXCEPT !.unexpected_aborts_ = n, !.pc = "retry"])

NextYcsb ==
  \/ \E random_inserts \in BOOLEAN : ycsb_run(random_inserts)
  \/ ycsb_request_stop
  \/ \E is_insert \in BOOLEAN : ycsb_select(is_insert)
  \/ ycsb_begin_xct
  \/ \E high \in YcsbWorkers, ret \in YcsbErrors \cup {"kErrorCodeOk"} : ycsb_insert(high, ret)
  \/ \E ret \in YcsbErrors \cup {"kErrorCodeOk"} : ycsb_access(ret)
  \/ \E precommit \in YcsbErrors \cup {"kErrorCodeOk"} : ycsb_commit(precommit)
  \/ ycsb_failed

\* one YCSB client task against a storage and a transaction manager that may
\* fail every call
SpecYcsb == Init /\ [][NextYcsb]_vars

\* the keys of worker w below its key counter that are not in the table
YcsbHoles(w) ==
  {k \in 0 .. (ycsb.key_counter_[w] - 1) : build_key(w, k) \notin ycsb.table}

\* C39 as claimed: a key counter is incremented only for an insert whose
\* transaction committed: after an attempt that was aborted or failed its
\* precommit every key counter has the value it had when the attempt began,
\* and between the transactions of a task that inserts under its own counter
\* every key below the counter is in the table (no holes).
C39_FailedInsertKeepsCounter ==
  /\ ycsb.pc = "failed" => ycsb.key_counter_ = ycsb.counter_at_begin
  /\ (ycsb.pc = "select" /\ ~ycsb.random_inserts_) => YcsbHoles(ycsb.worker_id_) = {}

\* C39, what the loop does: the counter is incremented after every do_insert
\* that returned kErrorCodeOk, before precommit_xct is called, and is never
\* taken back: with its own counter the task is ahead of the value at the
\* begin of the attempt by the number of inserts done in it, also after the
\* attempt failed.
C39_CounterCountsInsertsDone ==
  (~ycsb.random_inserts_ /\ ycsb.is_insert /\ ycsb.pc \in {"insert", "commit", "failed"}) =>
    ycsb.key_counter_[ycsb.worker_id_]
      = ycsb.counter_at_begin[ycsb.worker_id_] + ycsb.reps

\* the attempt that failed is classified in this step
YcsbClassifies == ycsb.pc = "failed" /\ ycsb'.pc # "failed"

\* the errors that are retried without being counted
YcsbRetried ==
  \/ ycsb.ret \in {"kErrorCodeXctRaceAbort", "kErrorCodeXctReadSetOverflow",
                   "kErrorCodeXctWriteSetOverflow", "kErrorCodeXctPointerSetOverflow",
                   "kErrorCodeXctPageVersionSetOverflow"}
  \/ ycsb.random_inserts_ /\ ycsb.ret = "kErrorCodeStrKeyAlreadyExists"

\* a race abort, a set overflow and, with random inserts, an existing key lead
\* to the retry and are not counted; every other error is counted, and the
\* task returns it once the count is above kMaxUnexpectedErrors
C40_RetryOrCount ==
  [][YcsbClassifies =>
       IF YcsbRetried
         THEN /\ ycsb'.pc = "retry"
              /\ ycsb'.unexpected_aborts_ = ycsb.unexpected_aborts_
         ELSE /\ ycsb'.unexpected_aborts_ = ycsb.unexpected_aborts_ + 1
              /\ IF ycsb'.unexpected_aborts_ > kMaxUnexpectedErrors
                   THEN ycsb'.pc = "returned" /\ ycsb'.result = ycsb.ret
                   ELSE ycsb'.pc = "retry"]_vars

\* no transaction is running after a failed attempt and when the retry
\* begins; the task ends with an error only with the unexpected error that
\* took the count above kMaxUnexpectedErrors
C40_NotRunningBeforeRetry ==
  /\ ycsb.pc \in {"failed", "retry"} => ~ycsb.running
  /\ (ycsb.pc = "returned" /\ ycsb.result # "kErrorCodeOk") =>
       /\ ycsb.unexpected_aborts_ = kMaxUnexpectedErrors + 1
       /\ ycsb.result = ycsb.ret
       /\ ycsb.result \notin {"kErrorCodeXctRaceAbort", "kErrorCodeXctReadSetOverflow",
                              "kErrorCodeXctWriteSetOverflow",
                              "kErrorCodeXctPointerSetOverflow",
                              "kErrorCodeXctPageVersionSetOverflow"}
       /\ ycsb.result = "kErrorCodeStrKeyAlreadyExists" => ~ycsb.random_inserts_
  /\ (ycsb.pc = "returned" /\ ycsb.result = "kErrorCodeOk") => ycsb.stop

====
